---- MODULE Spec2Model ----
(***************************************************************************)
(* A model of the rendering core of memeinator (memeinator/src/lib.rs):    *)
(* the font-size search get_filling_glyphs, the compositor simple_overlay  *)
(* and SimpleMemeTemplate::render which drives both.                       *)
(*                                                                         *)
(* f32 values are modelled bit-exactly for the non-negative range the code *)
(* uses: a value is [m, e] standing for m * 2^e with 2^23 <= m < 2^24 (or  *)
(* m = 0), and every operation rounds to nearest, ties to even.            *)
(* u32 values that may be near u32::MAX are pairs of 16-bit limbs.         *)
(***************************************************************************)
EXTENDS Integers, Sequences, FiniteSets, TLC

\* ------------------------------------------------------------------ f32 --
\* Each operation binds its operands once (as the arguments of a local
\* function) and then computes on the bound values.
MantBits == 24

Pow2(n) == 2 ^ n

F32 == [m : Nat, e : Int]

FZero == [m |-> 0, e |-> 0]

\* number of bits of n, for 0 <= n < 2^30
BitLen(n0) ==
    LET F[n \in Nat] ==
            CHOOSE k \in 0..30 : n < Pow2(k) /\ (k = 0 \/ n >= Pow2(k - 1))
    IN  F[n0]

\* an integer mantissa 0 <= m < 2^24 at exponent e, shifted up to 24 bits
FNorm(m0, e0) ==
    LET F[m \in Nat, e \in Int] ==
            IF m = 0 THEN FZero
            ELSE LET s == MantBits - BitLen(m)
                 IN  [m |-> m * Pow2(s), e |-> e - s]
    IN  F[m0, e0]

\* (hi * 2^24 + lo) * 2^e with hi, lo < 2^24, rounded to nearest-even
FRound(hi0, lo0, e0) ==
    LET F[hi \in Nat, lo \in Nat, e \in Int] ==
            IF hi = 0 THEN FNorm(lo, e)
            ELSE LET k    == BitLen(hi)
                     m0   == hi * Pow2(MantBits - k) + (lo \div Pow2(k))
                     rem  == lo % Pow2(k)
                     half == Pow2(k - 1)
                     m1   == IF rem > half \/ (rem = half /\ m0 % 2 = 1)
                             THEN m0 + 1 ELSE m0
                 IN  IF m1 = Pow2(MantBits)
                     THEN [m |-> Pow2(MantBits - 1), e |-> e + k + 1]
                     ELSE [m |-> m1, e |-> e + k]
    IN  F[hi0, lo0, e0]

\* `n as f32` for 0 <= n < 2^24 (exact)
FromInt(n) == FNorm(n, 0)

FLt(x0, y0) ==
    LET F[x \in F32, y \in F32] ==
            IF y.m = 0 THEN FALSE
            ELSE IF x.m = 0 THEN TRUE
            ELSE IF x.e = y.e THEN x.m < y.m
            ELSE x.e < y.e
    IN  F[x0, y0]

FLe(x0, y0) ==
    LET F[x \in F32, y \in F32] == IF x = y THEN TRUE ELSE FLt(x, y)
    IN  F[x0, y0]

FMul(x0, y0) ==
    LET F[x \in F32, y \in F32] ==
            IF x.m = 0 \/ y.m = 0 THEN FZero
            ELSE LET L    == Pow2(12)
                     a1   == x.m \div L
                     a0   == x.m % L
                     b1   == y.m \div L
                     b0   == y.m % L
                     mid  == a1 * b0 + a0 * b1
                     low  == a0 * b0 + (mid % L) * L
                     hi   == a1 * b1 + (mid \div L) + (low \div Pow2(MantBits))
                     lo   == low % Pow2(MantBits)
                 IN  FRound(hi, lo, x.e + y.e)
    IN  F[x0, y0]

\* sum of two non-negative values
FAdd(x0, y0) ==
    LET F[x \in F32, y \in F32] ==
            IF x.m = 0 THEN y
            ELSE IF y.m = 0 THEN x
            ELSE LET big   == IF x.e >= y.e THEN x ELSE y
                     small == IF x.e >= y.e THEN y ELSE x
                     d     == big.e - small.e
                 IN  IF d > MantBits THEN big
                     ELSE LET hi0 == big.m \div Pow2(MantBits - d)
                              lo0 == (big.m % Pow2(MantBits - d)) * Pow2(d)
                                     + small.m
                          IN  FRound(hi0 + (lo0 \div Pow2(MantBits)),
                                     lo0 % Pow2(MantBits), small.e)
    IN  F[x0, y0]

\* x - y for x >= y >= 0
FSub(x0, y0) ==
    LET F[x \in F32, y \in F32] ==
            IF y.m = 0 THEN x
            ELSE IF x = y THEN FZero
            ELSE LET d == x.e - y.e
                 IN  IF d > MantBits + 1 THEN x
                     ELSE IF d = MantBits + 1
                     THEN IF x.m = Pow2(MantBits - 1) /\ y.m > Pow2(MantBits - 1)
                          THEN [m |-> Pow2(MantBits) - 1, e |-> x.e - 1]
                          ELSE x
                     ELSE LET hi0 == x.m \div Pow2(MantBits - d)
                              lo0 == (x.m % Pow2(MantBits - d)) * Pow2(d) - y.m
                          IN  IF lo0 >= 0 THEN FRound(hi0, lo0, y.e)
                              ELSE FRound(hi0 - 1, lo0 + Pow2(MantBits), y.e)
    IN  F[x0, y0]

\* x / y for y > 0: the quotient of the mantissas scaled by 2^25, by long
\* division in steps of 7 + 7 + 7 + 4 bits,
\* and a sticky bit for the remainder
FDiv(x0, y0) ==
    LET F[x \in F32, y \in F32] ==
            IF x.m = 0 THEN FZero
            ELSE LET n1 == x.m * Pow2(7)
                     n2 == (n1 % y.m) * Pow2(7)
                     n3 == (n2 % y.m) * Pow2(7)
                     n4 == (n3 % y.m) * Pow2(4)
                     q  == (((n1 \div y.m) * Pow2(7) + (n2 \div y.m)) * Pow2(7)
                             + (n3 \div y.m)) * Pow2(4) + (n4 \div y.m)
                     v  == 2 * q + (IF n4 % y.m = 0 THEN 0 ELSE 1)
                 IN  FRound(v \div Pow2(MantBits), v % Pow2(MantBits),
                            x.e - y.e - (MantBits + 2))
    IN  F[x0, y0]

\* the integer part of x, for x < 2^24
FTrunc(x0) ==
    LET F[x \in F32] ==
            IF x.m = 0 \/ x.e <= 0 - MantBits THEN 0
            ELSE IF x.e >= 0 THEN x.m * Pow2(x.e)
            ELSE x.m \div Pow2(0 - x.e)
    IN  F[x0]

\* ------------------------------------------------------------------ u32 --
\* a u32 is [hi, lo], standing for hi * 2^16 + lo
LimbBase == Pow2(16)

U32(n) == [hi |-> n \div LimbBase, lo |-> n % LimbBase]

U32Max == [hi |-> LimbBase - 1, lo |-> LimbBase - 1]

\* the u32 sum p + n for 0 <= n < 2^16: the wrapped sum, and whether the
\* mathematical sum does not fit in 32 bits
U32Add(p, n) ==
    LET lo == p.lo + n
        hi == p.hi + (lo \div LimbBase)
    IN  [sum      |-> [hi |-> hi % LimbBase, lo |-> lo % LimbBase],
         overflow |-> hi >= LimbBase]

\* p < n, for 0 <= n < 2^16
U32Below(p, n) == p.hi = 0 /\ p.lo < n

U8Max == 255

\* `x as u8`: truncation, saturating at u8::MAX
ToU8(x0) ==
    LET F[x \in F32] == IF FLe(FromInt(U8Max), x) THEN U8Max ELSE FTrunc(x)
    IN  F[x0]

\* ------------------------------------------------------- model bounds --
MaxTextLen == 2

Chars == {"a", " "}

Texts == UNION {[1..n -> Chars] : n \in 0..MaxTextLen}

\* the search stops being followed once its lower bound passes this size
MaxRaisedPx == 64

\* largest width and height of a base image and of a coverage mask
MaxImage == 2

MaxMask == 2

\* box widths and heights (pixels) handed to the search
BoxDims == {0, 4, 12, 40}

\* --max-size values (pixels); 600 is the command line's default
MaxSizes == {FromInt(4), FromInt(5), FromInt(6), FromInt(8), FromInt(12),
             FromInt(600)}

\* ---------------------------------------------------------------- state --
VARIABLES
    pc,             \* position of the running call
    text,           \* get_filling_glyphs: text
    size,           \* get_filling_glyphs: size = (width, height) of the box
    max_font_size,  \* get_filling_glyphs: max_font_size
    min,            \* get_filling_glyphs: let mut min
    max,            \* get_filling_glyphs: let mut max
    candidate,      \* the size of the last layout.append
    layout,         \* fontdue Layout: lines() and height() of the last layout
    image,          \* simple_overlay: image, the RgbaImage exported in place
    mask,           \* simple_overlay: mask, the GrayImage of coverage
    color,          \* simple_overlay: color
    pos,            \* simple_overlay: pos
    overflow_checks, \* the build: debug (checked arithmetic) or release
    texts,          \* SimpleMemeTemplate::render: text, the content items
    fields,         \* SimpleMemeTemplate::render: self.config.text, the slots
    idx,            \* number of (text, bb) pairs the zip has yielded
    watermark_msg,  \* SimpleMemeTemplate::render: watermark_msg
    watermark_size_fraction, \* Config::watermark_size_fraction
    watermarked,    \* render_watermark has been called
    raster_cache,   \* render: raster_cache, the keys of the HashMap
    rasterized,     \* the calls of font.rasterize_config so far, in order
    overlays,       \* the calls of simple_overlay so far: (mask, pos)
    frames,         \* AnimatedMemeTemplate::render: self.frames
    frames_in,      \* self.frames as it was handed to render
    text_masks,     \* AnimatedMemeTemplate::render: texts, the (image, bb.min)
    watermark,      \* AnimatedMemeTemplate::render: watermark
    fidx,           \* number of frames the frame loop has finished
    source,         \* whole-image overlay: size of the source image
    slot,           \* whole-image overlay: the slot
    scaled,         \* whole-image overlay: the scaled size and its offset
    config_file,    \* memecli.conf.json on disk
    config,         \* main: the result of Config::load
    sources,        \* the source folders of Config::sources on disk
    template,       \* Generate::template
    found,          \* Generate::run: the result of get_meme_template
    output,         \* Generate::output
    rendered,       \* Generate::run: rendered
    clipboard,      \* the system clipboard
    exported,       \* what was exported to the file or to stdout
    stderr,         \* the lines exported by eprintln!
    result,         \* the result of main
    coordinates,    \* MakeTemplate::coordinates, the literals of the command line
    saved,          \* the MemeConfig that write_template serialized
    rects,          \* editor: TextRects::rects, each TextRect with its ActiveHandles
    meme_name,      \* editor: MemeName
    text_color,     \* editor: MemeTextColor
    cursor,         \* editor: the image pixel under the cursor, None outside the window
    events,         \* editor: the mouse button events since the last frame
    input,          \* editor: Input<MouseButton> for MouseButton::Left
    stdout          \* editor: the lines exported by print! and println!

fitVars == <<text, size, max_font_size, min, max, candidate, layout>>

overlayVars == <<image, mask, color, pos, overflow_checks, overlays>>

renderVars == <<texts, fields, idx, watermark_msg, watermark_size_fraction,
                watermarked, raster_cache, rasterized>>

animVars == <<frames, frames_in, text_masks, watermark, fidx>>

scaleVars == <<source, slot, scaled>>

cliVars == <<config_file, config, sources, template, found, output, rendered,
             clipboard, exported, stderr, result>>

makeVars == <<coordinates, saved>>

guiVars == <<rects, meme_name, text_color, cursor, events, input, stdout>>

toolVars == <<makeVars, guiVars>>

otherVars == <<animVars, scaleVars, cliVars, toolVars>>

vars == <<pc, fitVars, overlayVars, renderVars, otherVars>>

\* ----------------------------------------------------------------- images --
\* an image is [w, h, px]: px maps <<x, y>> to the pixel, an RgbaImage pixel
\* being <<r, g, b, a>> and a GrayImage pixel one coverage byte
Coords(img) == (0..(img.w - 1)) \X (0..(img.h - 1))

EmptyImage == [w |-> 0, h |-> 0, px |-> [c \in {} |-> 0]]

Black == <<FZero, FZero, FZero, FromInt(1)>>

\* no overlay is running
NoOverlay ==
    /\ image = EmptyImage
    /\ mask = EmptyImage
    /\ color = Black
    /\ pos = <<U32(0), U32(0)>>
    /\ overflow_checks = FALSE
    /\ overlays = <<>>

\* Option<T>
None == [some |-> FALSE]

Some(v) == [some |-> TRUE, val |-> v]

\* no render call is running
NoRender ==
    /\ texts = <<>>
    /\ fields = <<>>
    /\ idx = 0
    /\ watermark_msg = None
    /\ watermark_size_fraction = FZero
    /\ watermarked = FALSE
    /\ raster_cache = {}
    /\ rasterized = <<>>

\* no animated render is running
NoAnimated ==
    /\ frames = <<>>
    /\ frames_in = <<>>
    /\ text_masks = <<>>
    /\ watermark = None
    /\ fidx = 0

\* no whole-image overlay is running
NoScale ==
    /\ source = <<0, 0>>
    /\ slot = <<0, 0>>
    /\ scaled = None

\* the command line is not running
NoCli ==
    /\ config_file = None
    /\ config = None
    /\ sources = <<>>
    /\ template = ""
    /\ found = None
    /\ output = None
    /\ rendered = None
    /\ clipboard = None
    /\ exported = None
    /\ stderr = <<>>
    /\ result = None

\* no template is being made
NoMake ==
    /\ coordinates = <<>>
    /\ saved = None

\* Input<MouseButton> with nothing pressed
NoInput == [pressed |-> FALSE, just_pressed |-> FALSE, just_released |-> FALSE]

\* the editor is not running
NoGui ==
    /\ rects = <<>>
    /\ meme_name = ""
    /\ text_color = "Black"
    /\ cursor = None
    /\ events = <<>>
    /\ input = NoInput
    /\ stdout = None

NoTools == NoMake /\ NoGui

NoOther == NoAnimated /\ NoScale /\ NoCli /\ NoTools

\* ------------------------------------------------------ text and layout --
IsWhitespace(c) == c = " "

\* text.split(char::is_whitespace): the pieces between whitespace characters
RECURSIVE SplitFrom(_, _, _)
SplitFrom(t, i, cur) ==
    IF i > Len(t) THEN <<cur>>
    ELSE IF IsWhitespace(t[i]) THEN <<cur>> \o SplitFrom(t, i + 1, <<>>)
    ELSE SplitFrom(t, i + 1, Append(cur, t[i]))

\* the split that drops the empty pieces (str::split_whitespace)
SplitWords(t) == SelectSeq(SplitFrom(t, 1, <<>>), LAMBDA p : p # <<>>)

Split(t) == SplitFrom(t, 1, <<>>)

AbsMaxLines(t) == Len(Split(t))

\* fontdue: horizontal advance of a glyph of this face at px
Advance(px) == FDiv(px, FromInt(2))

\* fontdue: height of one line at px
LineHeight(px) == px

\* fontdue word wrap (WrapStyle::Word): the line and the column of every
\* glyph. nx glyphs are on the current line n, the last break opportunity of
\* the line is after its first nb glyphs; a word that does not fit moves to
\* the next line when the line has a break opportunity.
RECURSIVE PlaceFrom(_, _, _, _, _, _, _, _)
PlaceFrom(t, i, nx, nb, n, px, w, acc) ==
    IF i > Len(t) THEN acc
    ELSE IF IsWhitespace(t[i])
    THEN PlaceFrom(t, i + 1, nx + 1, nx + 1, n, px, w,
                   Append(acc, [line |-> n, col |-> nx]))
    ELSE IF nb > 0 /\ FLt(w, FMul(FromInt(nx + 1), Advance(px)))
    THEN LET k     == nx - nb
             keep  == Len(acc) - k
             moved == [j \in 1..Len(acc) |->
                         IF j > keep THEN [line |-> n + 1, col |-> j - keep - 1]
                         ELSE acc[j]]
         IN  PlaceFrom(t, i + 1, k + 1, 0, n + 1, px, w,
                       Append(moved, [line |-> n + 1, col |-> k]))
    ELSE PlaceFrom(t, i + 1, nx + 1, nb, n, px, w,
                   Append(acc, [line |-> n, col |-> nx]))

\* fontdue glyph positions: lines are centred in the box (HorizontalAlign::
\* Center) and stacked from the top (VerticalAlign::Top); x and y are
\* `glyph.x as u32` and `glyph.y as u32` (a negative offset casts to 0); w and
\* h are the size of the glyph's coverage bitmap (whitespace has none); key
\* is the GlyphRasterConfig: the glyph and the size (one font)
GlyphsOf(t, px, box, place) ==
    LET adv     == Advance(px)
        bw      == FromInt(box[1])
        Count(l) == Cardinality({j \in 1..Len(t) : place[j].line = l})
        Width(l) == FMul(FromInt(Count(l)), adv)
        Left(j)  == FMul(FromInt(place[j].col), adv)
        GX(j)    == LET lw == Width(place[j].line)
                    IN  IF FLe(lw, bw)
                        THEN FAdd(FDiv(FSub(bw, lw), FromInt(2)), Left(j))
                        ELSE LET off == FDiv(FSub(lw, bw), FromInt(2))
                             IN  IF FLe(off, Left(j)) THEN FSub(Left(j), off)
                                 ELSE FZero
    IN  [j \in 1..Len(t) |->
           [x |-> FTrunc(GX(j)),
            y |-> FTrunc(FMul(FromInt(place[j].line - 1), LineHeight(px))),
            w |-> IF IsWhitespace(t[j]) THEN 0 ELSE FTrunc(adv),
            h |-> IF IsWhitespace(t[j]) THEN 0 ELSE FTrunc(px),
            key |-> <<t[j], px>>]]

\* layout.reset(max_width, max_height, Word wrap); layout.append(text, px)
LayoutOf(t, px, box) ==
    LET place == PlaceFrom(t, 1, 0, 0, 1, px, FromInt(box[1]), <<>>)
        n     == IF Len(t) = 0 THEN 1 ELSE place[Len(t)].line
    IN  [lines  |-> n,
         height |-> IF Len(t) = 0 THEN FZero
                    ELSE FMul(FromInt(n), LineHeight(px)),
         glyphs |-> GlyphsOf(t, px, box, place)]

EmptyLayout == [lines |-> 1, height |-> FZero, glyphs |-> <<>>]

\* ---------------------------------------------------- get_filling_glyphs --
MinFontSize == FromInt(5)

Tolerance == FDiv(FromInt(1), FromInt(4))

Candidate(lo, hi) == FAdd(lo, FDiv(hi, FromInt(2)))

\* the test without its height part
TooLargeLinesOnly(lay, t, box) == lay.lines > AbsMaxLines(t)

TooLarge(lay, t, box) ==
    lay.lines > AbsMaxLines(t) \/ FLt(FromInt(box[2]), lay.height)

\* the test on the distance of the bounds: |min - max| <= 0.25
ConvergedEitherWay(lo, hi) ==
    IF FLe(lo, hi) THEN FLe(FSub(hi, lo), Tolerance)
    ELSE FLe(FSub(lo, hi), Tolerance)

\* min - max <= 0.25 (the difference is negative or zero when min <= max)
Converged(lo, hi) ==
    IF FLe(lo, hi) THEN TRUE ELSE FLe(FSub(lo, hi), Tolerance)

\* the head of a pass: the candidate and its layout
FitLayout ==
    /\ pc = "fit"
    /\ candidate' = Candidate(min, max)
    /\ layout' = LayoutOf(text, Candidate(min, max), size)
    /\ pc' = "test"
    /\ UNCHANGED <<text, size, max_font_size, min, max>>
    /\ UNCHANGED <<overlayVars, renderVars, otherVars>>

\* the pass ends in `max = candidate`
FitShrink ==
    /\ pc = "test"
    /\ TooLarge(layout, text, size)
    /\ max' = candidate
    /\ pc' = "fit"
    /\ UNCHANGED <<text, size, max_font_size, min, candidate, layout>>
    /\ UNCHANGED <<overlayVars, renderVars, otherVars>>

\* the pass ends in `break layout.glyphs()`
FitBreak ==
    /\ pc = "test"
    /\ ~TooLarge(layout, text, size)
    /\ Converged(min, max)
    /\ pc' = "glyphs"
    /\ UNCHANGED fitVars
    /\ UNCHANGED <<overlayVars, renderVars, otherVars>>

\* the pass ends in `min = candidate`
FitRaise ==
    /\ pc = "test"
    /\ ~TooLarge(layout, text, size)
    /\ ~Converged(min, max)
    /\ FLe(candidate, FromInt(MaxRaisedPx))
    /\ min' = candidate
    /\ pc' = "fit"
    /\ UNCHANGED <<text, size, max_font_size, max, candidate, layout>>
    /\ UNCHANGED <<overlayVars, renderVars, otherVars>>

\* get_filling_glyphs called with min_font_size = 5 on any text and box
InitFit ==
    /\ pc = "fit"
    /\ text \in Texts
    /\ size \in BoxDims \X BoxDims
    /\ max_font_size \in MaxSizes
    /\ min = MinFontSize
    /\ max = max_font_size
    /\ candidate = FZero
    /\ layout = EmptyLayout
    /\ NoOverlay
    /\ NoRender
    /\ NoOther

NextFit == FitLayout \/ FitShrink \/ FitBreak \/ FitRaise

SpecFit == InitFit /\ [][NextFit]_vars

\* the loop is sequential code: a pass that can run does run
FairSpecFit == SpecFit /\ WF_vars(NextFit)

FitReturned == pc = "glyphs"

\* --------------------------------------------------------- simple_overlay --
\* the blend with the previous value normalised by 256
BlendChannelBy256(prev, coverage, b) ==
    LET maskf == FDiv(FromInt(coverage), FromInt(U8Max))
        a     == FDiv(FromInt(prev), FromInt(U8Max + 1))
        new   == FAdd(FMul(FSub(FromInt(1), maskf), a), FMul(maskf, b))
    IN  ToU8(FMul(new, FromInt(U8Max)))

\* the blend with the weights of the two operands exchanged
BlendChannelSwapped(prev, coverage, b) ==
    LET maskf == FDiv(FromInt(coverage), FromInt(U8Max))
        a     == FDiv(FromInt(prev), FromInt(U8Max))
        new   == FAdd(FMul(maskf, a), FMul(FSub(FromInt(1), maskf), b))
    IN  ToU8(FMul(new, FromInt(U8Max)))

\* one channel: prev and coverage are bytes, b is the colour's channel
BlendChannel(prev, coverage, b) ==
    LET maskf == FDiv(FromInt(coverage), FromInt(U8Max))
        a     == FDiv(FromInt(prev), FromInt(U8Max))
        new   == FAdd(FMul(FSub(FromInt(1), maskf), a), FMul(maskf, b))
    IN  ToU8(FMul(new, FromInt(U8Max)))

Blend(prev, coverage, col) ==
    [ch \in 1..4 |-> BlendChannel(prev[ch], coverage, col[ch])]

\* the result of simple_overlay(img, msk, col, p): the image after the loops
\* and whether the call panicked. With overflow checks the first mask pixel
\* whose pos + (x, y) does not fit in a u32 panics and the pixels after it in
\* loop order (x outer, y inner) are not processed; without, the sum wraps.
Overlay(img, msk, col, p, checks) ==
    LET Order(c)  == c[1] * msk.h + c[2]
        X(c)      == U32Add(p[1], c[1])
        Y(c)      == U32Add(p[2], c[2])
        PanicAt   == IF checks
                     THEN {c \in Coords(msk) : X(c).overflow \/ Y(c).overflow}
                     ELSE {}
        Processed == {c \in Coords(msk) :
                        \A q \in PanicAt : Order(c) < Order(q)}
        InBounds(c) == U32Below(X(c).sum, img.w) /\ U32Below(Y(c).sum, img.h)
        \* a mask pixel whose target is t has these coordinates, as the mask
        \* is narrower and lower than 2^16
        From(t)   == <<(t[1] + LimbBase - p[1].lo) % LimbBase,
                       (t[2] + LimbBase - p[2].lo) % LimbBase>>
        Hits(t)   == {c \in {From(t)} \cap Processed :
                        InBounds(c) /\ <<X(c).sum.lo, Y(c).sum.lo>> = t}
    IN  [image |-> [img EXCEPT !.px =
                      [t \in Coords(img) |->
                         IF Hits(t) = {} THEN img.px[t]
                         ELSE Blend(img.px[t],
                                    msk.px[CHOOSE c \in Hits(t) : TRUE], col)]],
         panic |-> PanicAt # {}]

\* simple_overlay as one step of its caller
SimpleOverlay ==
    /\ pc = "overlay"
    /\ \E o \in {Overlay(image, mask, color, pos, overflow_checks)} :
           /\ image' = o.image
           /\ pc' = IF o.panic THEN "panic" ELSE "overlaid"
    /\ overlays' = Append(overlays, [mask |-> mask, pos |-> pos])
    /\ UNCHANGED <<mask, color, pos, overflow_checks>>
    /\ UNCHANGED <<fitVars, renderVars, otherVars>>

\* base images: every channel value 0..255 occurs in a 2 x 2 image of some seed
BaseImage(w, h, seed) ==
    [w |-> w, h |-> h,
     px |-> [t \in (0..(w - 1)) \X (0..(h - 1)) |->
               [ch \in 1..4 |->
                  (16 * seed + 4 * (t[2] * w + t[1]) + (ch - 1)) % (U8Max + 1)]]]

\* coverage masks: transparent, opaque, and anti-aliased edges
MaskFills == {"zero", "full", "mixed"}

MaskImage(w, h, fill) ==
    [w |-> w, h |-> h,
     px |-> [t \in (0..(w - 1)) \X (0..(h - 1)) |->
               CASE fill = "zero" -> 0
                 [] fill = "full" -> U8Max
                 [] OTHER -> IF (t[1] + t[2]) % 2 = 0 THEN 77 ELSE U8Max]]

\* colours of a template's config.json (channels in [0, 1])
Tinted == <<FDiv(FromInt(3), FromInt(10)), FDiv(FromInt(1), FromInt(2)),
            FDiv(FromInt(7), FromInt(10)), FromInt(1)>>

Colours == {Black, Tinted}

Origins == {<<U32(0), U32(0)>>, <<U32(1), U32(1)>>, <<U32(2), U32(0)>>,
            <<U32Max, U32(0)>>, <<U32(0), U32Max>>}

\* simple_overlay called on any base image, mask, colour and origin
InitOverlay ==
    /\ pc = "overlay"
    /\ \E w \in 1..MaxImage, h \in 1..MaxImage, seed \in 0..15 :
           image = BaseImage(w, h, seed)
    /\ \E w \in 0..MaxMask, h \in 0..MaxMask, fill \in MaskFills :
           mask = MaskImage(w, h, fill)
    /\ color \in Colours
    /\ pos \in Origins
    /\ overflow_checks \in BOOLEAN
    /\ text = <<>>
    /\ size = <<0, 0>>
    /\ max_font_size = FZero
    /\ min = FZero
    /\ max = FZero
    /\ candidate = FZero
    /\ layout = EmptyLayout
    /\ overlays = <<>>
    /\ NoRender
    /\ NoOther

NextOverlay == SimpleOverlay

SpecOverlay == InitOverlay /\ [][NextOverlay]_vars

\* ------------------------------------------------------------ render_text --
Min(a, b) == IF a <= b THEN a ELSE b

\* GrayImage::from_vec(size.0, size.1, vec![0; size.0 * size.1])
ZeroMask(box) ==
    [w |-> box[1], h |-> box[2],
     px |-> [t \in (0..(box[1] - 1)) \X (0..(box[2] - 1)) |-> 0]]

\* the pixels render_glyphs hands to put_pixel for glyph g: the bitmap of
\* font.rasterize_config, every byte full coverage, moved to the glyph
GlyphPixels(g) ==
    {<<x + g.x, y + g.y>> : x \in 0..(g.w - 1), y \in 0..(g.h - 1)}

\* render_glyphs with gray_image.put_pixel: the mask, and whether a put_pixel
\* outside the mask panicked
RenderGlyphsInto(msk, glyphs) ==
    LET written == UNION {GlyphPixels(glyphs[j]) : j \in 1..Len(glyphs)}
    IN  [image |-> [msk EXCEPT !.px =
                      [t \in Coords(msk) |->
                         IF t \in written THEN U8Max ELSE msk.px[t]]],
         panic |-> \E t \in written : t[1] >= msk.w \/ t[2] >= msk.h]

\* render_glyphs without the cache: every glyph is rasterized
RasterMissesUncached(cache, glyphs) ==
    [j \in 1..Len(glyphs) |-> glyphs[j].key]

\* render_glyphs, raster_cache.entry(glyph.key).or_insert_with(rasterize): the
\* keys handed to font.rasterize_config, in order; a key is rasterized when it
\* is not in the cache, which holds the keys of the earlier glyphs too
RasterMisses(cache, glyphs) ==
    LET miss   == {j \in 1..Len(glyphs) :
                      /\ glyphs[j].key \notin cache
                      /\ \A i \in 1..(j - 1) : glyphs[i].key # glyphs[j].key}
        Nth(k) == CHOOSE j \in miss : Cardinality({i \in miss : i < j}) = k - 1
    IN  [k \in 1..Cardinality(miss) |-> glyphs[Nth(k)].key]

\* the keys of the cache after render_glyphs
CacheAfter(cache, glyphs) ==
    cache \cup {glyphs[j].key : j \in 1..Len(glyphs)}

\* ------------------------------------------------------- render_watermark --
\* x.ceil() as an integer, for 0 <= x < 2^24
FCeil(x0) ==
    LET F[x \in F32] ==
            IF x.m = 0 THEN 0
            ELSE IF x.e <= 0 - MantBits THEN 1
            ELSE IF x.e >= 0 THEN x.m * Pow2(x.e)
            ELSE (x.m \div Pow2(0 - x.e))
                 + (IF x.m % Pow2(0 - x.e) = 0 THEN 0 ELSE 1)
    IN  F[x0]

\* the u32 difference a - b for 0 <= a, b < 2^16: the wrapped difference, and
\* whether the mathematical difference is negative
U32Sub(a, b) ==
    [diff      |-> IF b <= a THEN U32(a - b)
                   ELSE [hi |-> LimbBase - 1, lo |-> LimbBase - (b - a)],
     underflow |-> b > a]

\* layout.reset(Left, Middle, no max_width, no max_height); layout.append:
\* one line from the left edge, glyph after glyph
WatermarkLayout(t, px) ==
    [lines  |-> 1,
     height |-> IF Len(t) = 0 THEN FZero ELSE LineHeight(px),
     glyphs |-> [j \in 1..Len(t) |->
                   [x |-> FTrunc(FMul(FromInt(j - 1), Advance(px))),
                    y |-> 0,
                    w |-> IF IsWhitespace(t[j]) THEN 0 ELSE FTrunc(Advance(px)),
                    h |-> IF IsWhitespace(t[j]) THEN 0 ELSE FTrunc(px),
                    key |-> <<t[j], px>>]]]

\* img_width.min(img_height) as f32 / config.watermark_size_fraction
WatermarkFontSize(w, h, fraction) == FDiv(FromInt(Min(w, h)), fraction)

\* render_watermark(raster_cache, layout, font, (w, h), config, msg): the
\* strip, its row `img_height - font_size.ceil() as u32`, and whether the call
\* panicked, in put_pixel or (with overflow checks) in the subtraction
WatermarkOf(w, h, fraction, msg, checks) ==
    LET font_size == WatermarkFontSize(w, h, fraction)
        lay       == WatermarkLayout(msg, font_size)
        drawn     == RenderGlyphsInto(ZeroMask(<<w, FTrunc(lay.height)>>),
                                      lay.glyphs)
        row       == U32Sub(h, FCeil(font_size))
    IN  [image     |-> drawn.image,
         pos       |-> row.diff,
         glyphs    |-> lay.glyphs,
         font_size |-> font_size,
         panic     |-> drawn.panic \/ (checks /\ row.underflow)]

\* -------------------------------------------- SimpleMemeTemplate::render --
\* the slots of a template are well formed (min <= max on both axes), so
\* bb.max - bb.min does not underflow
BoxOf(bb) == <<bb.max[1] - bb.min[1], bb.max[2] - bb.min[2]>>

\* the zip with the slots taken from the last one backwards
ZipFromLastSlot(ts, fs) ==
    [i \in 1..Min(Len(ts), Len(fs)) |-> <<ts[i], fs[Len(fs) + 1 - i]>>]

\* text.iter().zip(&self.config.text): the (text, bb) pairs, in order
Zip(ts, fs) == [i \in 1..Min(Len(ts), Len(fs)) |-> <<ts[i], fs[i]>>]

Pairs == Len(Zip(texts, fields))

\* the zip yields the next (text, bb): render_text allocates the mask and
\* enters get_filling_glyphs(size, font, layout, 5., max_font_size, text)
RenderText ==
    /\ pc \in {"render", "overlaid"}
    /\ idx < Pairs
    /\ idx' = idx + 1
    /\ text' = Zip(texts, fields)[idx + 1][1]
    /\ size' = BoxOf(Zip(texts, fields)[idx + 1][2])
    /\ mask' = ZeroMask(BoxOf(Zip(texts, fields)[idx + 1][2]))
    /\ min' = MinFontSize
    /\ max' = max_font_size
    /\ pc' = "fit"
    /\ UNCHANGED <<max_font_size, candidate, layout>>
    /\ UNCHANGED <<image, color, pos, overflow_checks, overlays>>
    /\ UNCHANGED <<texts, fields, watermark_msg, watermark_size_fraction,
                   watermarked, raster_cache, rasterized>>
    /\ UNCHANGED otherVars

\* render_text after the search: render_glyphs writes the mask, which is then
\* the argument of simple_overlay(&mut self.image, &mask, color, bb.min).
\* (When put_pixel panics the call has rasterized a prefix of these keys.)
RenderGlyphs ==
    /\ pc = "glyphs"
    /\ idx > 0
    /\ \E drawn \in {RenderGlyphsInto(mask, layout.glyphs)} :
           /\ mask' = drawn.image
           /\ pc' = IF drawn.panic THEN "panic" ELSE "overlay"
    /\ raster_cache' = CacheAfter(raster_cache, layout.glyphs)
    /\ rasterized' = rasterized \o RasterMisses(raster_cache, layout.glyphs)
    /\ pos' = <<U32(Zip(texts, fields)[idx][2].min[1]),
                U32(Zip(texts, fields)[idx][2].min[2])>>
    /\ UNCHANGED <<image, color, overflow_checks, overlays>>
    /\ UNCHANGED <<texts, fields, idx, watermark_msg, watermark_size_fraction,
                   watermarked>>
    /\ UNCHANGED <<fitVars, otherVars>>

\* the zip is exhausted and watermark_msg is Some: render_watermark makes the
\* strip, which is then the argument of simple_overlay(.., (0, pos))
RenderWatermark ==
    /\ pc \in {"render", "overlaid"}
    /\ idx = Pairs
    /\ idx > 0 \/ pc = "render"
    /\ watermark_msg.some
    /\ ~watermarked
    /\ \E wm \in {WatermarkOf(image.w, image.h, watermark_size_fraction,
                              watermark_msg.val, overflow_checks)} :
           /\ mask' = wm.image
           /\ pos' = <<U32(0), wm.pos>>
           /\ raster_cache' = CacheAfter(raster_cache, wm.glyphs)
           /\ rasterized' = rasterized \o RasterMisses(raster_cache, wm.glyphs)
           /\ pc' = IF wm.panic THEN "panic" ELSE "overlay"
    /\ watermarked' = TRUE
    /\ UNCHANGED <<image, color, overflow_checks, overlays>>
    /\ UNCHANGED <<texts, fields, idx, watermark_msg, watermark_size_fraction>>
    /\ UNCHANGED <<fitVars, otherVars>>

\* the zip is exhausted and the watermark, if any, is overlaid: render
\* returns self.image
RenderReturn ==
    /\ pc \in {"render", "overlaid"}
    /\ idx = Pairs
    /\ idx > 0 \/ pc = "render"
    /\ ~watermark_msg.some \/ watermarked
    /\ pc' = "done"
    /\ UNCHANGED <<fitVars, overlayVars, renderVars, otherVars>>

\* sizes of the template image and of its slots
ImageSide == 10

\* slots of zero width, of zero height and of both sides positive, each at
\* its own corner
Slots == {[min |-> <<1, 1>>, max |-> <<1, 9>>],
          [min |-> <<0, 2>>, max |-> <<8, 2>>],
          [min |-> <<2, 0>>, max |-> <<10, 8>>]}

\* a slot narrower than a glyph of the smallest font size, and a wide one
NarrowSlots == {[min |-> <<0, 0>>, max |-> <<1, 8>>],
                [min |-> <<2, 0>>, max |-> <<10, 8>>]}

\* image.png of the template
TemplateImage == BaseImage(ImageSide, ImageSide, 15)

RenderTexts == {<<>>, <<"a">>, <<"a", "a">>}

MaxItems == 2

SeqsUpTo(S, n) == UNION {[1..k -> S] : k \in 0..n}

\* watermark_size_fraction of memecli.conf.json; 30 is the default
DefaultFraction == FromInt(30)

Fractions == {FDiv(FromInt(1), FromInt(2)), FromInt(2)}

\* watermark_msg and the fraction: --no-watermark, or a watermark
Watermarks ==
    {<<None, DefaultFraction>>} \cup {<<Some(<<"a">>), f>> : f \in Fractions}

\* SimpleMemeTemplate::render called on a template and its content items; the
\* template's config.json sets no colour
InitRender(slots) ==
    /\ pc = "render"
    /\ idx = 0
    /\ watermarked = FALSE
    /\ raster_cache = {}
    /\ rasterized = <<>>
    /\ image = TemplateImage
    /\ mask = EmptyImage
    /\ pos = <<U32(0), U32(0)>>
    /\ overlays = <<>>
    /\ text = <<>>
    /\ size = <<0, 0>>
    /\ min = FZero
    /\ max = FZero
    /\ candidate = FZero
    /\ layout = EmptyLayout
    /\ NoOther
    /\ texts \in SeqsUpTo(RenderTexts, MaxItems)
    /\ fields \in SeqsUpTo(slots, MaxItems)
    /\ \E wm \in Watermarks :
           watermark_msg = wm[1] /\ watermark_size_fraction = wm[2]
    /\ color = Black
    /\ overflow_checks \in BOOLEAN
    /\ max_font_size \in {FromInt(4), FromInt(6)}

Init == InitRender(Slots)

InitNarrow == InitRender(NarrowSlots)

Next ==
    \/ RenderText
    \/ FitLayout
    \/ FitShrink
    \/ FitBreak
    \/ FitRaise
    \/ RenderGlyphs
    \/ SimpleOverlay
    \/ RenderWatermark
    \/ RenderReturn

Spec == Init /\ [][Next]_vars

\* render is sequential code: a step that can run does run
FairSpec == Spec /\ WF_vars(Next)

\* render into slots that are narrower than the text
SpecNarrow == InitNarrow /\ [][Next]_vars

\* ------------------------------------------ AnimatedMemeTemplate::render --
\* simple_overlay called for each (mask, pos) of calls in turn, until one
\* panics: the image, whether a call panicked, and the calls made
RECURSIVE OverlayAll(_, _, _, _, _)
OverlayAll(img, calls, i, col, checks) ==
    IF i > Len(calls) THEN [image |-> img, panic |-> FALSE, calls |-> calls]
    ELSE LET o == Overlay(img, calls[i].mask, col, calls[i].pos, checks)
         IN  IF o.panic
             THEN [image |-> o.image, panic |-> TRUE,
                   calls |-> SubSeq(calls, 1, i)]
             ELSE OverlayAll(o.image, calls, i + 1, col, checks)

\* the map closure is called on the next (text, bb): render_text allocates
\* the mask and enters get_filling_glyphs
AnimRenderText ==
    /\ pc \in {"animated", "collected"}
    /\ idx < Pairs
    /\ idx' = idx + 1
    /\ text' = Zip(texts, fields)[idx + 1][1]
    /\ size' = BoxOf(Zip(texts, fields)[idx + 1][2])
    /\ mask' = ZeroMask(BoxOf(Zip(texts, fields)[idx + 1][2]))
    /\ min' = MinFontSize
    /\ max' = max_font_size
    /\ pc' = "fit"
    /\ UNCHANGED <<max_font_size, candidate, layout>>
    /\ UNCHANGED <<image, color, pos, overflow_checks, overlays>>
    /\ UNCHANGED <<texts, fields, watermark_msg, watermark_size_fraction,
                   watermarked, raster_cache, rasterized>>
    /\ UNCHANGED otherVars

\* render_text after the search: render_glyphs writes the mask and the
\* closure returns (image, bb.min), which collect() appends to texts
AnimCollect ==
    /\ pc = "glyphs"
    /\ idx > 0
    /\ raster_cache' = CacheAfter(raster_cache, layout.glyphs)
    /\ rasterized' = rasterized \o RasterMisses(raster_cache, layout.glyphs)
    /\ \E drawn \in {RenderGlyphsInto(mask, layout.glyphs)} :
           /\ mask' = drawn.image
           /\ IF drawn.panic
              THEN pc' = "panic" /\ UNCHANGED text_masks
              ELSE /\ pc' = "collected"
                   /\ text_masks' =
                        Append(text_masks,
                               [mask |-> drawn.image,
                                pos  |-> <<U32(Zip(texts, fields)[idx][2].min[1]),
                                           U32(Zip(texts, fields)[idx][2].min[2])>>])
    /\ UNCHANGED <<image, color, pos, overflow_checks, overlays>>
    /\ UNCHANGED <<texts, fields, idx, watermark_msg, watermark_size_fraction,
                   watermarked>>
    /\ UNCHANGED <<frames, frames_in, watermark, fidx>>
    /\ UNCHANGED <<fitVars, scaleVars, cliVars,
                   toolVars>>

\* watermark_msg.map(|watermark| render_watermark(.., (self.frames[0]
\* .buffer().width(), self.frames[0].buffer().height()), ..)): indexing an
\* empty self.frames panics
AnimWatermark ==
    /\ pc \in {"animated", "collected"}
    /\ idx = Pairs
    /\ IF ~watermark_msg.some
       THEN /\ pc' = "frames"
            /\ UNCHANGED <<watermark, watermarked, raster_cache, rasterized>>
       ELSE IF frames = <<>>
       THEN /\ pc' = "panic"
            /\ UNCHANGED <<watermark, watermarked, raster_cache, rasterized>>
       ELSE \E wm \in {WatermarkOf(frames[1].w, frames[1].h,
                                   watermark_size_fraction, watermark_msg.val,
                                   overflow_checks)} :
                /\ watermarked' = TRUE
                /\ raster_cache' = CacheAfter(raster_cache, wm.glyphs)
                /\ rasterized' =
                     rasterized \o RasterMisses(raster_cache, wm.glyphs)
                /\ IF wm.panic
                   THEN pc' = "panic" /\ UNCHANGED watermark
                   ELSE /\ pc' = "frames"
                        /\ watermark' = Some([mask |-> wm.image,
                                              pos  |-> <<U32(0), wm.pos>>])
    /\ UNCHANGED <<texts, fields, idx, watermark_msg, watermark_size_fraction>>
    /\ UNCHANGED <<frames, frames_in, text_masks, fidx>>
    /\ UNCHANGED <<fitVars, overlayVars, scaleVars, cliVars,
                   toolVars>>

\* one pass of `for frame in &mut self.frames`: every (mask, pos) of texts and
\* then the watermark is overlaid on the frame's buffer
AnimFrame ==
    /\ pc = "frames"
    /\ fidx < Len(frames)
    /\ \E o \in {OverlayAll(frames[fidx + 1],
                              IF watermark.some
                              THEN Append(text_masks, watermark.val)
                              ELSE text_masks,
                              1, color, overflow_checks)} :
           /\ frames' = [frames EXCEPT ![fidx + 1] = o.image]
           /\ overlays' = overlays \o o.calls
           /\ pc' = IF o.panic THEN "panic" ELSE "frames"
    /\ fidx' = fidx + 1
    /\ UNCHANGED <<image, mask, color, pos, overflow_checks>>
    /\ UNCHANGED <<frames_in, text_masks, watermark>>
    /\ UNCHANGED <<fitVars, renderVars, scaleVars, cliVars,
                   toolVars>>

\* the frame loop is over: render returns self.frames
AnimReturn ==
    /\ pc = "frames"
    /\ fidx = Len(frames)
    /\ pc' = "done"
    /\ UNCHANGED <<fitVars, overlayVars, renderVars, otherVars>>

\* frames of one GIF: every frame is the canvas of the GIF, so all have one
\* size; a GIF may hold no frame at all
MaxFrames == 2

GifFrames == {[i \in 1..n |-> BaseImage(ImageSide, ImageSide, 16 - i)] :
                n \in 0..MaxFrames}

AnimTexts == {<<>>, <<"a">>}

AnimSlots == {[min |-> <<1, 1>>, max |-> <<1, 9>>],
              [min |-> <<2, 0>>, max |-> <<10, 8>>]}

AnimWatermarks == {<<None, DefaultFraction>>, <<Some(<<"a">>), FromInt(2)>>}

\* AnimatedMemeTemplate::render called on a template and its content items
InitAnimated ==
    /\ pc = "animated"
    /\ idx = 0
    /\ watermarked = FALSE
    /\ raster_cache = {}
    /\ rasterized = <<>>
    /\ image = EmptyImage
    /\ mask = EmptyImage
    /\ pos = <<U32(0), U32(0)>>
    /\ overlays = <<>>
    /\ text = <<>>
    /\ size = <<0, 0>>
    /\ min = FZero
    /\ max = FZero
    /\ candidate = FZero
    /\ layout = EmptyLayout
    /\ text_masks = <<>>
    /\ watermark = None
    /\ fidx = 0
    /\ NoScale
    /\ NoCli
    /\ NoTools
    /\ frames \in GifFrames
    /\ frames_in = frames
    /\ texts \in SeqsUpTo(AnimTexts, MaxItems)
    /\ fields \in SeqsUpTo(AnimSlots, MaxItems)
    /\ \E wm \in AnimWatermarks :
           watermark_msg = wm[1] /\ watermark_size_fraction = wm[2]
    /\ color = Black
    /\ overflow_checks \in BOOLEAN
    /\ max_font_size \in {FromInt(4), FromInt(6)}

NextAnimated ==
    \/ AnimRenderText
    \/ FitLayout
    \/ FitShrink
    \/ FitBreak
    \/ FitRaise
    \/ AnimCollect
    \/ AnimWatermark
    \/ AnimFrame
    \/ AnimReturn

SpecAnimated == InitAnimated /\ [][NextAnimated]_vars

\* ------------------------------------------------- whole-image overlay --
\* A nested template or a raw image placed into a slot. The renderer of this
\* revision has text slots only; the operation is modelled from its contract:
\* one scale factor for both axes, the largest with which the source fits the
\* slot, the target size multiplied out and truncated to pixels, the target
\* centred in the slack of the slot.
FMin(x, y) == IF FLt(y, x) THEN y ELSE x

\* the factor with which the source covers the slot on both axes
ScaleFactorFill(src, box) ==
    LET sx == FDiv(FromInt(box[1]), FromInt(src[1]))
        sy == FDiv(FromInt(box[2]), FromInt(src[2]))
    IN  IF FLt(sx, sy) THEN sy ELSE sx

\* the uniform scale factor: the smaller of the two axis ratios
ScaleFactor(src, box) ==
    FMin(FDiv(FromInt(box[1]), FromInt(src[1])),
         FDiv(FromInt(box[2]), FromInt(src[2])))

\* the size the source is resampled to and where the slot's corner places it
ScaleToFit(src, box) ==
    LET scale == ScaleFactor(src, box)
        w     == FTrunc(FMul(FromInt(src[1]), scale))
        h     == FTrunc(FMul(FromInt(src[2]), scale))
    IN  [size   |-> <<w, h>>,
         offset |-> <<(box[1] - w) \div 2, (box[2] - h) \div 2>>]

\* the content item of a slot is an image: its scaled size is computed
ScaleIntoSlot ==
    /\ pc = "scale"
    /\ scaled' = Some(ScaleToFit(source, slot))
    /\ pc' = "scaled"
    /\ UNCHANGED <<source, slot>>
    /\ UNCHANGED <<fitVars, overlayVars, renderVars, animVars, cliVars,
                   toolVars>>

\* sides of source images and of slots
MaxSource == 7

MaxSlot == 9

InitScale ==
    /\ pc = "scale"
    /\ source \in (1..MaxSource) \X (1..MaxSource)
    /\ slot \in (0..MaxSlot) \X (0..MaxSlot)
    /\ scaled = None
    /\ text = <<>>
    /\ size = <<0, 0>>
    /\ max_font_size = FZero
    /\ min = FZero
    /\ max = FZero
    /\ candidate = FZero
    /\ layout = EmptyLayout
    /\ NoOverlay
    /\ NoRender
    /\ NoAnimated
    /\ NoCli
    /\ NoTools

NextScale == ScaleIntoSlot

SpecScale == InitScale /\ [][NextScale]_vars

\* ------------------------------- the simple render as a function of its input --
\* passes of the search that are followed
SearchPasses == 40

\* get_filling_glyphs as a function: the layout it returns, or None when it
\* has not returned after fuel passes
RECURSIVE Search(_, _, _, _, _)
Search(t, box, lo, hi, fuel) ==
    IF fuel = 0 THEN None
    ELSE LET c   == Candidate(lo, hi)
             lay == LayoutOf(t, c, box)
         IN  IF TooLarge(lay, t, box) THEN Search(t, box, lo, c, fuel - 1)
             ELSE IF Converged(lo, hi) THEN Some(lay)
             ELSE IF FLe(c, FromInt(MaxRaisedPx))
             THEN Search(t, box, c, hi, fuel - 1)
             ELSE None

\* the loop of SimpleMemeTemplate::render from pair i on: the image, and how
\* the loop ends ("done", "panic", or "hang" when a search does not return)
RECURSIVE SimpleTextsFrom(_, _, _, _, _, _)
SimpleTextsFrom(img, pairs, i, maxfs, col, checks) ==
    IF i > Len(pairs) THEN [image |-> img, end |-> "done"]
    ELSE LET box   == BoxOf(pairs[i][2])
             glyphs_of == Search(pairs[i][1], box, MinFontSize, maxfs, SearchPasses)
         IN  IF ~glyphs_of.some THEN [image |-> img, end |-> "hang"]
             ELSE LET drawn == RenderGlyphsInto(ZeroMask(box), glyphs_of.val.glyphs)
                      o     == Overlay(img, drawn.image, col,
                                       <<U32(pairs[i][2].min[1]),
                                         U32(pairs[i][2].min[2])>>, checks)
                  IN  IF drawn.panic THEN [image |-> img, end |-> "panic"]
                      ELSE IF o.panic THEN [image |-> o.image, end |-> "panic"]
                      ELSE SimpleTextsFrom(o.image, pairs, i + 1, maxfs, col,
                                           checks)

\* SimpleMemeTemplate::render of a template with base image img and the
\* texts, slots, colour and watermark of the state
SimpleRenderOf(img) ==
    LET body == SimpleTextsFrom(img, Zip(texts, fields), 1, max_font_size,
                                color, overflow_checks)
    IN  IF body.end # "done" \/ ~watermark_msg.some THEN body
        ELSE LET wm == WatermarkOf(body.image.w, body.image.h,
                                   watermark_size_fraction, watermark_msg.val,
                                   overflow_checks)
                 o  == Overlay(body.image, wm.image, color,
                               <<U32(0), wm.pos>>, overflow_checks)
             IN  IF wm.panic THEN [image |-> body.image, end |-> "panic"]
                 ELSE [image |-> o.image,
                       end   |-> IF o.panic THEN "panic" ELSE "done"]

\* ------------------------------------------------------- Result<T, Error> --
\* an anyhow::Error is its message and the contexts attached to it, each a
\* sequence of the pieces of its format string
Ok(v) == [ok |-> TRUE, val |-> v]

Err(msg, context) == [ok |-> FALSE, msg |-> msg, context |-> context]

\* ------------------------------------------------------------ Config::load --
DefaultConfig ==
    [watermark |-> "Made with meme-cli", watermark_size_fraction |-> DefaultFraction]

\* the FileConfig of a memecli.conf.json that parses
FileConfig == [watermark |-> "mine", watermark_size_fraction |-> FromInt(2)]

\* Config::load: file is what is at config_dir()/memecli.conf.json
ConfigLoad(file) ==
    IF file = "nodir" THEN Err(<<"config dir not found">>, <<>>)
    ELSE IF file = "unreadable" THEN Ok(DefaultConfig)
    ELSE IF file = "broken"
    THEN Err(<<"serde_json::Error">>, <<<<"The configuration file is broken">>>>)
    ELSE Ok(FileConfig)

\* ------------------------------------------------------ get_meme_template --
\* the body of `if template_name == template`: e is the directory, at its
\* place (source, entry) in the scan
OpenTemplate(e, at) ==
    IF e.config = "missing" THEN Err(<<"io::Error NotFound">>, <<>>)
    ELSE IF e.config = "broken" THEN Err(<<"serde_json::Error">>, <<>>)
    ELSE IF e.png = "present" THEN Ok([kind |-> "Simple", at |-> at])
    ELSE IF e.png = "corrupt" THEN Err(<<"ImageError">>, <<>>)
    ELSE IF e.png = "missing"
    THEN IF e.gif = "present" THEN Ok([kind |-> "Animated", at |-> at])
         ELSE IF e.gif = "corrupt" THEN Err(<<"ImageError">>, <<>>)
         ELSE Err(<<"io::Error NotFound">>,
                  <<<<"Cannot read animated.gif for format ", e.name>>>>)
    ELSE Err(<<"io::Error PermissionDenied">>,
             <<<<"Cannot read image.png for format ", e.name>>>>)

\* one pass of `for meme_dir in source_dir.read_dir()`: None when the loop
\* goes on to the next entry, else what get_meme_template returns
EntryStep(e, at, name) ==
    IF e.kind = "ioerr" THEN Some(Err(<<"io::Error">>, <<>>))
    ELSE IF e.kind # "dir" THEN None
    ELSE IF ~e.utf8
    THEN Some(Err(<<"can't parse template name as utf8">>, <<>>))
    ELSE IF e.name = name THEN Some(OpenTemplate(e, at))
    ELSE None

RECURSIVE ScanEntries(_, _, _, _)
ScanEntries(es, i, j, name) ==
    IF j > Len(es) THEN None
    ELSE LET r == EntryStep(es[j], <<i, j>>, name)
         IN  IF r.some THEN r ELSE ScanEntries(es, i, j + 1, name)

\* `for source in &self.sources` from source i on
RECURSIVE ScanSources(_, _, _)
ScanSources(srcs, i, name) ==
    IF i > Len(srcs) THEN Err(<<"Can't find template ", name>>, <<>>)
    ELSE IF srcs[i].state = "nodir" THEN Err(<<"io::Error">>, <<>>)
    ELSE IF srcs[i].state = "unreadable"
    THEN Err(<<"io::Error">>, <<<<"Cannot open meme source folder ", i>>>>)
    ELSE LET r == ScanEntries(srcs[i].entries, i, 1, name)
         IN  IF r.some THEN r.val ELSE ScanSources(srcs, i + 1, name)

\* the lookup that gives up after the first source
GetMemeTemplateFirstSource(srcs, name) ==
    ScanSources(SubSeq(srcs, 1, Min(1, Len(srcs))), 1, name)

\* Config::get_meme_template(template)
GetMemeTemplate(srcs, name) == ScanSources(srcs, 1, name)

\* ----------------------------------------------------------------- image_out --
Unsupported ==
    Err(<<"Animated memes are not yet supported for clipboard export :( Please export to a file using -o">>,
        <<>>)

\* image_out that puts whatever was rendered on the clipboard
ImageOutAnyRender(r, clip, clipboard_ok) ==
    IF clipboard_ok THEN [result |-> Ok(<<>>), clipboard |-> Some(r)]
    ELSE [result |-> Err(<<"arboard::Error">>, <<>>), clipboard |-> clip]

\* image_out(rendered) of image_io/arboard.rs: its result and the clipboard
\* after it; clipboard_ok is whether Clipboard::new and set_image succeed
ImageOut(r, clip, clipboard_ok) ==
    IF r = "Simple"
    THEN IF clipboard_ok THEN [result |-> Ok(<<>>), clipboard |-> Some(r)]
         ELSE [result |-> Err(<<"arboard::Error">>, <<>>), clipboard |-> clip]
    ELSE [result |-> Unsupported, clipboard |-> clip]

\* ------------------------------------------------------ main, Generate::run --
\* main: let config = Config::load()?
MainLoad ==
    /\ pc = "main"
    /\ \E r \in {ConfigLoad(config_file)} :
           IF r.ok
           THEN config' = Some(r.val) /\ pc' = "generate" /\ UNCHANGED result
           ELSE result' = Some(r) /\ pc' = "exit" /\ UNCHANGED config
    /\ UNCHANGED <<config_file, sources, template, found, output, rendered,
                   clipboard, exported, stderr>>
    /\ UNCHANGED <<fitVars, overlayVars, renderVars, animVars, scaleVars,
                   toolVars>>

\* let meme = config.get_meme_template(&self.template)?;
\* eprintln!("Template found")
RunLookup ==
    /\ pc = "generate"
    /\ found' = Some(GetMemeTemplate(sources, template))
    /\ IF found'.val.ok
       THEN /\ stderr' = Append(stderr, "Template found")
            /\ pc' = "rendering"
            /\ UNCHANGED result
       ELSE /\ result' = found'
            /\ pc' = "exit"
            /\ UNCHANGED stderr
    /\ UNCHANGED <<config_file, config, sources, template, output, rendered,
                   clipboard, exported>>
    /\ UNCHANGED <<fitVars, overlayVars, renderVars, animVars, scaleVars,
                   toolVars>>

\* let rendered = meme.render(..); eprintln!("Meme rendered"). The render of
\* the template is the subject of the specifications above: it returns a
\* RenderedMeme of the kind of the template, or panics
RunRender ==
    /\ pc = "rendering"
    /\ \E returns \in BOOLEAN :
           IF returns
           THEN /\ rendered' = Some(found.val.val.kind)
                /\ stderr' = Append(stderr, "Meme rendered")
                /\ pc' = "export"
           ELSE /\ pc' = "panic"
                /\ UNCHANGED <<rendered, stderr>>
    /\ UNCHANGED <<config_file, config, sources, template, found, output,
                   clipboard, exported, result>>
    /\ UNCHANGED <<fitVars, overlayVars, renderVars, animVars, scaleVars,
                   toolVars>>

\* `if let Some(out_path) = self.output`: the encoder writes the PNG or the
\* GIF to stdout ("-") or to the file; io_ok is whether the write succeeds
RunExportFile ==
    /\ pc = "export"
    /\ output.some
    /\ \E io_ok \in BOOLEAN :
           IF io_ok
           THEN /\ exported' = Some([to |-> output.val, kind |-> rendered.val])
                /\ stderr' = Append(stderr, "Done!")
                /\ result' = Some(Ok(<<>>))
           ELSE /\ result' = Some(Err(<<"ImageError">>, <<>>))
                /\ UNCHANGED <<exported, stderr>>
    /\ pc' = "exit"
    /\ UNCHANGED <<config_file, config, sources, template, found, output,
                   rendered, clipboard>>
    /\ UNCHANGED <<fitVars, overlayVars, renderVars, animVars, scaleVars,
                   toolVars>>

\* else: image_io::image_out(rendered)?; then eprintln!("Done!"); Ok(())
RunExportClipboard ==
    /\ pc = "export"
    /\ ~output.some
    /\ \E clipboard_ok \in BOOLEAN :
         \E o \in {ImageOut(rendered.val, clipboard, clipboard_ok)} :
           /\ clipboard' = o.clipboard
           /\ result' = Some(o.result)
           /\ stderr' = IF o.result.ok THEN Append(stderr, "Done!") ELSE stderr
    /\ pc' = "exit"
    /\ UNCHANGED <<config_file, config, sources, template, found, output,
                   rendered, exported>>
    /\ UNCHANGED <<fitVars, overlayVars, renderVars, animVars, scaleVars,
                   toolVars>>

\* a template directory of a source folder and what it holds
Dir(name, cfg, png, gif) ==
    [kind |-> "dir", utf8 |-> TRUE, name |-> name, config |-> cfg,
     png |-> png, gif |-> gif]

\* entries of a source folder: templates "a" and "b" with and without their
\* files, a plain file named "a", a directory whose name is not UTF-8, and
\* an entry that cannot be read
Entries ==
    {Dir("a", "valid", "present", "missing"),
     Dir("a", "valid", "missing", "present"),
     Dir("a", "valid", "missing", "missing"),
     Dir("a", "missing", "missing", "missing"),
     Dir("a", "broken", "present", "missing"),
     Dir("a", "valid", "denied", "present"),
     Dir("b", "valid", "present", "missing"),
     [Dir("a", "missing", "missing", "missing") EXCEPT !.kind = "file"],
     [Dir("", "missing", "missing", "missing") EXCEPT !.utf8 = FALSE],
     [Dir("", "missing", "missing", "missing") EXCEPT !.kind = "ioerr"]}

\* the entries a folder lists have different file names
DistinctNames(es) ==
    \A j, k \in 1..Len(es) :
        (j # k /\ es[j].kind # "ioerr" /\ es[k].kind # "ioerr") =>
            <<es[j].utf8, es[j].name>> # <<es[k].utf8, es[k].name>>

MaxEntries == 2

MaxSources == 2

\* a source folder: it cannot be created, it cannot be listed, or it lists
\* its entries in the order read_dir yields them
SourceFolders ==
    {[state |-> "nodir", entries |-> <<>>],
     [state |-> "unreadable", entries |-> <<>>]}
    \cup {[state |-> "listed", entries |-> es] :
              es \in {l \in SeqsUpTo(Entries, MaxEntries) : DistinctNames(l)}}

ConfigFiles == {"nodir", "unreadable", "broken", "valid"}

\* main is started as `meme-cli generate a ..` with -o -, -o FILE or neither
InitCli ==
    /\ pc = "main"
    /\ config_file \in ConfigFiles
    /\ config = None
    /\ sources \in SeqsUpTo(SourceFolders, MaxSources)
    /\ template = "a"
    /\ found = None
    /\ output \in {None, Some("-"), Some("meme.gif")}
    /\ rendered = None
    /\ clipboard \in {None, Some("earlier")}
    /\ exported = None
    /\ stderr = <<>>
    /\ result = None
    /\ text = <<>>
    /\ size = <<0, 0>>
    /\ max_font_size = FZero
    /\ min = FZero
    /\ max = FZero
    /\ candidate = FZero
    /\ layout = EmptyLayout
    /\ NoOverlay
    /\ NoRender
    /\ NoAnimated
    /\ NoScale
    /\ NoTools

NextCli ==
    \/ MainLoad
    \/ RunLookup
    \/ RunRender
    \/ RunExportFile
    \/ RunExportClipboard

SpecCli == InitCli /\ [][NextCli]_vars

\* ------------------------------------------------- Config::write_template --
\* es with e put in before the entry that read_dir yields at place k + 1
InsertAt(es, k, e) == SubSeq(es, 1, k) \o <<e>> \o SubSeq(es, k + 1, Len(es))

\* .find_map(MemeSource::LocalPath): the first local source, 0 when none
RECURSIVE FirstLocal(_, _)
FirstLocal(srcs, i) ==
    IF i > Len(srcs) THEN 0
    ELSE IF srcs[i].local THEN i
    ELSE FirstLocal(srcs, i + 1)

\* the folder has an entry of this file name
HasEntry(src, name) ==
    \E j \in 1..Len(src.entries) :
        /\ src.entries[j].kind # "ioerr"
        /\ src.entries[j].utf8
        /\ src.entries[j].name = name

\* the steps of write_template that touch the disk, and "none"
WriteFailures == {"none", "create_dir", "image.png", "config.json"}

\* Config::write_template(buf, width, height, cfg, name) on the source folders
\* srcs: its result, the folders after it and the configuration it wrote.
\* fail is the step at which the file system refuses, k the place at which
\* read_dir yields the new directory from then on
WriteTemplate(srcs, name, cfg, fail, k) ==
    LET i    == FirstLocal(srcs, 1)
        made(c, p) == [srcs EXCEPT ![i].entries =
                          InsertAt(@, Min(k, Len(@)), Dir(name, c, p, "missing"))]
    IN  IF i = 0
        THEN [result |-> Err(<<"No local sources configured">>, <<>>),
              sources |-> srcs, saved |-> None]
        ELSE IF \/ srcs[i].state # "listed"
                \/ name = ""
                \/ HasEntry(srcs[i], name)
                \/ fail = "create_dir"
        THEN [result |-> Err(<<"io::Error">>, <<>>), sources |-> srcs,
              saved |-> None]
        ELSE IF fail = "image.png"
        THEN [result |-> Err(<<"ImageError">>, <<>>),
              sources |-> made("missing", "missing"), saved |-> None]
        ELSE IF fail = "config.json"
        THEN [result |-> Err(<<"io::Error">>, <<>>),
              sources |-> made("missing", "present"), saved |-> None]
        ELSE [result |-> Ok(<<>>), sources |-> made("valid", "present"),
              saved |-> Some(cfg)]

\* ------------------------------------------------------ MakeTemplate::run --
Digits == {"0", "1", "2", "3", "4", "5", "6", "7", "8", "9"}

DigitValue(c) ==
    CASE c = "0" -> 0 [] c = "1" -> 1 [] c = "2" -> 2 [] c = "3" -> 3
      [] c = "4" -> 4 [] c = "5" -> 5 [] c = "6" -> 6 [] c = "7" -> 7
      [] c = "8" -> 8 [] c = "9" -> 9

\* coord.split("-"): the pieces of s from character i on, cur being the piece
\* that is open
RECURSIVE SplitDash(_, _, _)
SplitDash(s, i, cur) ==
    IF i > Len(s) THEN <<cur>>
    ELSE IF s[i] = "-" THEN <<cur>> \o SplitDash(s, i + 1, <<>>)
    ELSE SplitDash(s, i + 1, Append(cur, s[i]))

\* acc * 10 + digit in u32, by checked_mul and checked_add: None on overflow
PushDigit(acc, digit) ==
    LET lo == acc.lo * 10 + digit
        hi == acc.hi * 10 + (lo \div LimbBase)
    IN  IF hi >= LimbBase THEN None
        ELSE Some([hi |-> hi, lo |-> lo % LimbBase])

\* the u32 the digits of p from i on make after acc, None on overflow
RECURSIVE DigitsValue(_, _, _)
DigitsValue(p, i, acc) ==
    IF i > Len(p) THEN Some(acc)
    ELSE LET n == PushDigit(acc, DigitValue(p[i]))
         IN  IF n.some THEN DigitsValue(p, i + 1, n.val) ELSE None

\* str::parse::<u32>: digits after an optional "+", at most u32::MAX
ParseU32(p) ==
    LET ds == IF Len(p) > 0 /\ p[1] = "+" THEN Tail(p) ELSE p
        n  == IF ds = <<>> \/ \E i \in 1..Len(ds) : ds[i] \notin Digits
              THEN None
              ELSE DigitsValue(ds, 1, U32(0))
    IN  IF n.some THEN Ok(n.val) ELSE Err(<<"ParseIntError">>, <<>>)

\* iterator.next().ok_or_else(e)??, four times: the parts from k on, into acc
RECURSIVE NextParts(_, _, _)
NextParts(parts, k, acc) ==
    IF k > 4 THEN Ok([min |-> <<acc[1], acc[2]>>, max |-> <<acc[3], acc[4]>>])
    ELSE IF k > Len(parts) THEN Err(<<"Incorrect coordinate literal">>, <<>>)
    ELSE LET n == ParseU32(parts[k])
         IN  IF n.ok THEN NextParts(parts, k + 1, Append(acc, n.val)) ELSE n

\* the loop over the literals from i on, coords being the slots pushed so far
RECURSIVE ParseCoordinates(_, _, _)
ParseCoordinates(cs, i, coords) ==
    IF i > Len(cs) THEN Ok(coords)
    ELSE LET t == NextParts(SplitDash(cs[i], 1, <<>>), 1, <<>>)
         IN  IF t.ok THEN ParseCoordinates(cs, i + 1, Append(coords, t.val))
             ELSE t

\* MakeTemplate::run: input_ok is whether image::open or image_in yields the
\* image
MakeTemplateRun ==
    /\ pc = "make"
    /\ pc' = "exit"
    /\ \E input_ok \in BOOLEAN, fail \in WriteFailures, k \in 0..MaxEntries :
         \E parsed \in {ParseCoordinates(coordinates, 1, <<>>)} :
           IF ~input_ok
           THEN /\ result' = Some(Err(<<"ImageError">>, <<>>))
                /\ UNCHANGED <<sources, saved>>
           ELSE IF ~parsed.ok
           THEN /\ result' = Some(parsed)
                /\ UNCHANGED <<sources, saved>>
           ELSE \E w \in {WriteTemplate(sources, template,
                                        [color |-> Some(Black), text |-> parsed.val],
                                        fail, k)} :
                    /\ result' = Some(w.result)
                    /\ sources' = w.sources
                    /\ saved' = w.saved
    /\ UNCHANGED <<config_file, config, template, found, output, rendered,
                   clipboard, exported, stderr, coordinates>>
    /\ UNCHANGED <<fitVars, overlayVars, renderVars, animVars, scaleVars,
                   guiVars>>

\* a literal as its characters
Literals ==
    {<<"1", "-", "2", "-", "3", "-", "4">>,
     <<"7", "-", "7", "-", "2", "-", "1">>,
     <<"1", "2", "-", "0", "-", "0", "3", "-", "9">>,
     <<"+", "1", "-", "2", "-", "3", "-", "4">>,
     <<"1", "-", "2", "-", "3">>,
     <<"1", "-", "2", "-", "3", "-", "x">>,
     <<"1", "-", "-", "3", "-", "4">>,
     <<"1", "-", "2", "-", "3", "-", "4", "-", "x">>,
     <<"1", "-", "2", "-", "3", "-", "4", "-", "5">>,
     <<"4", "2", "9", "4", "9", "6", "7", "2", "9", "6", "-", "2", "-", "3", "-", "4">>,
     <<>>}

MaxCoordinates == 2

\* source folders of make-template: a local folder or the checkout of a git
\* source, holding template "a", template "b", both or none, and a local
\* folder that cannot be created
MakeFolders ==
    {[local |-> FALSE, state |-> "listed", entries |-> <<>>],
     [local |-> FALSE, state |-> "listed",
      entries |-> <<Dir("a", "valid", "present", "missing")>>],
     [local |-> TRUE, state |-> "nodir", entries |-> <<>>],
     [local |-> TRUE, state |-> "listed", entries |-> <<>>],
     [local |-> TRUE, state |-> "listed",
      entries |-> <<Dir("b", "valid", "present", "missing")>>],
     [local |-> TRUE, state |-> "listed",
      entries |-> <<Dir("b", "valid", "present", "missing"),
                    Dir("a", "valid", "missing", "present")>>]}

\* main is started as `meme-cli make-template NAME LITERAL..`, the
\* configuration loaded
InitMake ==
    /\ pc = "make"
    /\ config_file = "valid"
    /\ config = Some(FileConfig)
    /\ sources \in SeqsUpTo(MakeFolders, MaxSources)
    /\ template \in {"a", ""}
    /\ coordinates \in SeqsUpTo(Literals, MaxCoordinates)
    /\ saved = None
    /\ found = None
    /\ output = None
    /\ rendered = None
    /\ clipboard = None
    /\ exported = None
    /\ stderr = <<>>
    /\ result = None
    /\ text = <<>>
    /\ size = <<0, 0>>
    /\ max_font_size = FZero
    /\ min = FZero
    /\ max = FZero
    /\ candidate = FZero
    /\ layout = EmptyLayout
    /\ NoOverlay
    /\ NoRender
    /\ NoAnimated
    /\ NoScale
    /\ NoGui

NextMake == MakeTemplateRun

SpecMake == InitMake /\ [][NextMake]_vars

\* ------------------------------------------------------ the template editor --
\* side of the image the editor starts with
GuiImageSize == 600

\* width of the panel of the user interface
PanelWidth == 360

\* a press takes the handles nearer than this on both axes
GrabRadius == 20

\* the (x, y) sides of the nine handles of a text rect, in the order they are
\* spawned
HandleList ==
    <<<<"Negative", "Negative">>, <<"Positive", "Positive">>,
      <<"Negative", "Positive">>, <<"Positive", "Negative">>,
      <<"Positive", "Indifferent">>, <<"Negative", "Indifferent">>,
      <<"Indifferent", "Positive">>, <<"Indifferent", "Negative">>,
      <<"Both", "Both">>>>

\* HandleSide::get_mult
GetMult(side) ==
    CASE side = "Indifferent" -> 0
      [] side = "Positive" -> 1
      [] side = "Negative" -> -1
      [] side = "Both" -> 0

\* the TextRect that New Text spawns, none of its handles active
NewTextRect ==
    [min |-> <<100, 100>>, max |-> <<200, 200>>,
     active |-> [h \in DOMAIN HandleList |-> None]]

\* positions of the window are kept doubled, so that the halves are integers.
\* mpos = cursor_position - wsize / 2 of the cursor over image pixel c, in a
\* window that shows the image at its own size (scale = 1), where
\* keep_on_edge_system puts the sprite at x = 360 / 2
MPos(c) == <<2 * c[1] - GuiImageSize + PanelWidth, GuiImageSize - 2 * c[2]>>

\* gpos = hpos + pos + meme_pos.translation of handle h of the rect
GPos(rect, h) ==
    LET size_y == GuiImageSize
        lo == <<rect.min[1], size_y - rect.min[2]>>
        hi == <<rect.max[1], size_y - rect.max[2]>>
        rect_size == <<hi[1] - lo[1], hi[2] - lo[2]>>
        pos2  == <<hi[1] + lo[1] - GuiImageSize, hi[2] + lo[2] - GuiImageSize>>
        hpos2 == <<rect_size[1] * GetMult(HandleList[h][1]),
                   rect_size[2] * (-GetMult(HandleList[h][2]))>>
    IN  <<hpos2[1] + pos2[1] + PanelWidth, hpos2[2] + pos2[2]>>

\* (mpos - gpos).abs().cmplt(Vec2::ONE * 20.).all()
Within(d) ==
    /\ -2 * GrabRadius < d[1] /\ d[1] < 2 * GrabRadius
    /\ -2 * GrabRadius < d[2] /\ d[2] < 2 * GrabRadius

\* `delta as i32` of a doubled delta: the half, truncated towards zero
AsI32(d2) == IF d2 >= 0 THEN d2 \div 2 ELSE -((-d2) \div 2)

\* Input::press and Input::release of bevy
PressLeft(i) ==
    [pressed |-> TRUE, just_pressed |-> i.just_pressed \/ ~i.pressed,
     just_released |-> i.just_released]

ReleaseLeft(i) ==
    [pressed |-> FALSE, just_pressed |-> i.just_pressed, just_released |-> TRUE]

RECURSIVE ApplyEvents(_, _, _)
ApplyEvents(i, evs, k) ==
    IF k > Len(evs) THEN i
    ELSE ApplyEvents(IF evs[k] = "press" THEN PressLeft(i) ELSE ReleaseLeft(i),
                     evs, k + 1)

\* the entities of handle_q: the handles that have an ActiveHandle
Actives(rs) ==
    {a \in (1..Len(rs)) \X DOMAIN HandleList : rs[a[1]].active[a[2]].some}

\* the match on handle.x and handle.y
Dragged(rect, h, dx, dy) ==
    LET hx == HandleList[h][1]
        hy == HandleList[h][2]
    IN  [rect EXCEPT
           !.max = <<IF hx \in {"Positive", "Both"} THEN @[1] + dx ELSE @[1],
                     IF hy \in {"Negative", "Both"} THEN @[2] - dy ELSE @[2]>>,
           !.min = <<IF hx \in {"Negative", "Both"} THEN @[1] + dx ELSE @[1],
                     IF hy \in {"Positive", "Both"} THEN @[2] - dy ELSE @[2]>>]

\* handle_system: the rects after it and after its commands
HandleSystem(rs, c, inp) ==
    IF ~c.some \/ Cardinality(Actives(rs)) # 1 THEN rs
    ELSE LET a == CHOOSE a \in Actives(rs) : TRUE
             r == a[1]
             h == a[2]
             offset == rs[r].active[h].val
             gpos   == GPos(rs[r], h)
             mpos   == MPos(c.val)
             delta  == <<mpos[1] - offset[1] - gpos[1],
                         mpos[2] - offset[2] - gpos[2]>>
         IN  IF inp.pressed
             THEN [rs EXCEPT ![r] = Dragged(@, h, AsI32(delta[1]), AsI32(delta[2]))]
             ELSE IF inp.just_released
             THEN [rs EXCEPT ![r].active[h] = None]
             ELSE rs

\* text_rect_system: the rects after its commands
TextRectSystem(rs, c, inp) ==
    IF ~inp.just_pressed \/ ~c.some THEN rs
    ELSE [r \in 1..Len(rs) |->
             [rs[r] EXCEPT !.active =
                 [h \in DOMAIN HandleList |->
                     LET mpos == MPos(c.val)
                         gpos == GPos(rs[r], h)
                         d    == <<mpos[1] - gpos[1], mpos[2] - gpos[2]>>
                     IN  IF Within(d) THEN Some(d) ELSE rs[r].active[h]]]]

\* one frame: the input system (Input::clear, then the events), then
\* handle_system, then text_rect_system
Frame ==
    /\ pc = "gui"
    /\ input' = ApplyEvents([input EXCEPT !.just_pressed = FALSE,
                                          !.just_released = FALSE], events, 1)
    /\ events' = <<>>
    /\ rects' = TextRectSystem(HandleSystem(rects, cursor, input'), cursor, input')
    /\ UNCHANGED <<meme_name, text_color, cursor, stdout>>
    /\ UNCHANGED <<pc, fitVars, overlayVars, renderVars, animVars, scaleVars,
                   cliVars, makeVars>>

MaxEvents == 2

\* the left button is down
ButtonDown ==
    IF events = <<>> THEN input.pressed ELSE events[Len(events)] = "press"

\* the user presses the left button
MousePress ==
    /\ pc = "gui"
    /\ Len(events) < MaxEvents
    /\ ~ButtonDown
    /\ events' = Append(events, "press")
    /\ UNCHANGED <<rects, meme_name, text_color, cursor, input, stdout>>
    /\ UNCHANGED <<pc, fitVars, overlayVars, renderVars, animVars, scaleVars,
                   cliVars, makeVars>>

\* the user releases the left button
MouseRelease ==
    /\ pc = "gui"
    /\ Len(events) < MaxEvents
    /\ ButtonDown
    /\ events' = Append(events, "release")
    /\ UNCHANGED <<rects, meme_name, text_color, cursor, input, stdout>>
    /\ UNCHANGED <<pc, fitVars, overlayVars, renderVars, animVars, scaleVars,
                   cliVars, makeVars>>

\* image pixels the cursor is put on: the corners of a new rect, and a point
\* left of and above the image
CursorPoints == {<<100, 100>>, <<200, 200>>, <<-30, -30>>}

\* the user moves the cursor, or leaves the window with it
MouseMove ==
    /\ pc = "gui"
    /\ \E c \in {None} \cup {Some(q) : q \in CursorPoints} :
           /\ c # cursor
           /\ cursor' = c
    /\ UNCHANGED <<rects, meme_name, text_color, events, input, stdout>>
    /\ UNCHANGED <<pc, fitVars, overlayVars, renderVars, animVars, scaleVars,
                   cliVars, makeVars>>

MaxRects == 1

\* the button New Text
NewText ==
    /\ pc = "gui"
    /\ Len(rects) < MaxRects
    /\ rects' = Append(rects, NewTextRect)
    /\ UNCHANGED <<meme_name, text_color, cursor, events, input, stdout>>
    /\ UNCHANGED <<pc, fitVars, overlayVars, renderVars, animVars, scaleVars,
                   cliVars, makeVars>>

\* the button remove text of rect i
RemoveText ==
    /\ pc = "gui"
    /\ \E i \in 1..Len(rects) :
           rects' = SubSeq(rects, 1, i - 1) \o SubSeq(rects, i + 1, Len(rects))
    /\ UNCHANGED <<meme_name, text_color, cursor, events, input, stdout>>
    /\ UNCHANGED <<pc, fitVars, overlayVars, renderVars, animVars, scaleVars,
                   cliVars, makeVars>>

\* the text box Template name
EditName ==
    /\ pc = "gui"
    /\ \E n \in {"", "a"} :
           /\ n # meme_name
           /\ meme_name' = n
    /\ UNCHANGED <<rects, text_color, cursor, events, input, stdout>>
    /\ UNCHANGED <<pc, fitVars, overlayVars, renderVars, animVars, scaleVars,
                   cliVars, makeVars>>

\* the radio buttons Text Color
PickColor ==
    /\ pc = "gui"
    /\ text_color' \in {"Black", "White"} \ {text_color}
    /\ UNCHANGED <<rects, meme_name, cursor, events, input, stdout>>
    /\ UNCHANGED <<pc, fitVars, overlayVars, renderVars, animVars, scaleVars,
                   cliVars, makeVars>>

White == <<FromInt(1), FromInt(1), FromInt(1), FromInt(1)>>

\* `n as u32` of an i32
AsU32(n) ==
    IF n >= 0 THEN U32(n)
    ELSE [hi |-> LimbBase - 1 - ((-n - 1) \div LimbBase),
          lo |-> LimbBase - 1 - ((-n - 1) % LimbBase)]

\* the MemeField of a TextRect
FieldOf(rect) ==
    [min |-> <<AsU32(Min(rect.min[1], rect.max[1])),
               AsU32(Min(rect.min[2], rect.max[2]))>>,
     max |-> <<AsU32(-Min(-rect.min[1], -rect.max[1])),
               AsU32(-Min(-rect.min[2], -rect.max[2]))>>]

\* Save Template that clears name and rects whatever write_template returns
SaveTemplateAlwaysClears ==
    /\ pc = "gui"
    /\ IF meme_name = ""
       THEN /\ stdout' = Some(<<"Can't save template without name">>)
            /\ UNCHANGED <<pc, rects, meme_name, sources, saved>>
       ELSE \E fail \in WriteFailures, k \in 0..MaxEntries :
              \E w \in {WriteTemplate(sources, meme_name,
                            [color |-> Some(IF text_color = "Black" THEN Black ELSE White),
                             text  |-> [i \in 1..Len(rects) |-> FieldOf(rects[i])]],
                            fail, k)} :
                /\ sources' = w.sources
                /\ stdout' = IF w.result.ok THEN stdout ELSE Some(w.result.msg)
                /\ saved' = IF w.result.ok THEN w.saved ELSE saved
                /\ pc' = IF w.result.ok THEN "written" ELSE pc
                /\ meme_name' = ""
                /\ rects' = <<>>
    /\ UNCHANGED <<text_color, cursor, events, input, coordinates>>
    /\ UNCHANGED <<config_file, config, template, found, output, rendered,
                   clipboard, exported, stderr, result>>
    /\ UNCHANGED <<fitVars, overlayVars, renderVars, animVars, scaleVars>>

\* the button Save Template; stdout keeps the line printed last, and the
\* session is followed until a template is written
SaveTemplate ==
    /\ pc = "gui"
    /\ IF meme_name = ""
       THEN /\ stdout' = Some(<<"Can't save template without name">>)
            /\ UNCHANGED <<pc, rects, meme_name, sources, saved>>
       ELSE \E fail \in WriteFailures, k \in 0..MaxEntries :
              \E w \in {WriteTemplate(sources, meme_name,
                            [color |-> Some(IF text_color = "Black" THEN Black ELSE White),
                             text  |-> [i \in 1..Len(rects) |-> FieldOf(rects[i])]],
                            fail, k)} :
                /\ sources' = w.sources
                /\ IF w.result.ok
                   THEN /\ saved' = w.saved
                        /\ meme_name' = ""
                        /\ rects' = <<>>
                        /\ pc' = "written"
                        /\ UNCHANGED stdout
                   ELSE /\ stdout' = Some(w.result.msg)
                        /\ UNCHANGED <<pc, saved, meme_name, rects>>
    /\ UNCHANGED <<text_color, cursor, events, input, coordinates>>
    /\ UNCHANGED <<config_file, config, template, found, output, rendered,
                   clipboard, exported, stderr, result>>
    /\ UNCHANGED <<fitVars, overlayVars, renderVars, animVars, scaleVars>>

\* the sources of the configuration the editor loads
GuiSources ==
    {<<>>,
     <<[local |-> TRUE, state |-> "listed", entries |-> <<>>]>>,
     <<[local |-> FALSE, state |-> "listed", entries |-> <<>>],
       [local |-> TRUE, state |-> "listed",
        entries |-> <<Dir("a", "valid", "present", "missing")>>]>>}

\* the editor after startup
InitGui ==
    /\ pc = "gui"
    /\ rects = <<>>
    /\ meme_name = ""
    /\ text_color = "Black"
    /\ cursor = None
    /\ events = <<>>
    /\ input = NoInput
    /\ stdout = None
    /\ config_file = "valid"
    /\ config = Some(FileConfig)
    /\ sources \in GuiSources
    /\ template = ""
    /\ found = None
    /\ output = None
    /\ rendered = None
    /\ clipboard = None
    /\ exported = None
    /\ stderr = <<>>
    /\ result = None
    /\ text = <<>>
    /\ size = <<0, 0>>
    /\ max_font_size = FZero
    /\ min = FZero
    /\ max = FZero
    /\ candidate = FZero
    /\ layout = EmptyLayout
    /\ NoOverlay
    /\ NoRender
    /\ NoAnimated
    /\ NoScale
    /\ NoMake

NextGui ==
    \/ Frame
    \/ MousePress
    \/ MouseRelease
    \/ MouseMove
    \/ NewText
    \/ RemoveText
    \/ EditName
    \/ PickColor
    \/ SaveTemplate

SpecGui == InitGui /\ [][NextGui]_vars

\* the frames keep running; the user is free to do nothing
FairSpecGui == SpecGui /\ WF_vars(Frame)

\* ------------------------------------------------ claims on simple_overlay --
\* a call of simple_overlay ends in this step
OverlayEnds == pc = "overlay" /\ pc' # "overlay"

\* the mask pixels placed on pixel t of the base at origin p, without wrapping
CoveredBy(msk, p, t) ==
    {c \in Coords(msk) :
        /\ p[1].hi = 0 /\ p[1].lo + c[1] = t[1]
        /\ p[2].hi = 0 /\ p[2].lo + c[2] = t[2]}

MaskAll(msk, v) == \A c \in Coords(msk) : msk.px[c] = v

\* 255 * x <= n and 255 * x >= n, exactly, for an f32 x in [2^-8, 1] and an integer n
Le255(x, n) == x.m - n * Pow2((0 - x.e) - 8) <= x.m \div Pow2(8)

Ge255(x, n) == x.m - n * Pow2((0 - x.e) - 8) >= (x.m + U8Max) \div Pow2(8)

\* |v - 255 * x| <= 1 for a byte v and a colour channel x
WithinOneUnit(v, x) ==
    IF x.m = 0 THEN v <= 1 ELSE Le255(x, v + 1) /\ Ge255(x, v - 1)

\* C7: for every u32 origin the call never fails and every pixel of the base
\* that is not at origin + (mx, my) for a mask pixel (mx, my) is unchanged.
C7_ClipsToBase ==
    [][OverlayEnds =>
          /\ pc' # "panic"
          /\ \A t \in Coords(image) :
                CoveredBy(mask, pos, t) = {} => image'.px[t] = image.px[t]]_vars

\* C8: with an all-zero coverage mask every pixel of the base keeps its value,
\* for every base image, colour and origin.
C8_ZeroMaskKeepsBase ==
    [][(OverlayEnds /\ MaskAll(mask, 0)) => image' = image]_vars

\* a completed call whose all-zero mask lies over pixel (0, 0) of the base
C8_Witness ==
    /\ pc = "overlaid"
    /\ MaskAll(mask, 0)
    /\ CoveredBy(mask, pos, <<0, 0>>) # {}
    /\ color = Tinted
    /\ image.px[<<0, 0>>] = <<240, 241, 242, 243>>

\* C9: with an all-255 coverage mask every covered in-bounds pixel gets the
\* colour: each channel is within one unit of colour_channel * 255, whatever
\* the pixel was before.
C9_FullMaskSetsColour ==
    [][(OverlayEnds /\ pc' = "overlaid" /\ MaskAll(mask, U8Max)) =>
          \A t \in Coords(image) :
             CoveredBy(mask, pos, t) # {} =>
                \A ch \in 1..4 : WithinOneUnit(image'.px[t][ch], color[ch])]_vars

\* a completed call whose all-255 mask lies over pixel (0, 0) of the base
C9_Witness ==
    /\ pc = "overlaid"
    /\ mask.w > 0 /\ mask.h > 0
    /\ MaskAll(mask, U8Max)
    /\ CoveredBy(mask, pos, <<0, 0>>) # {}
    /\ color = Tinted
    /\ image.px[<<0, 0>>] = <<76, 127, 178, 255>>


\* --------------------------------------------- claims on get_filling_glyphs --
\* max_size > min_size = 5.0
InRange == FLt(MinFontSize, max_font_size)

\* sizes at which a layout is probed
ProbeSizes == {FromInt(n) : n \in 5..40} \cup MaxSizes

\* C1: for every text, box and max_size > min_size = 5.0 the search
\* terminates, also when no size in the range satisfies the constraints.
C1_FitTerminates == InRange => <>FitReturned

\* C2: when the search returns for max_size > min_size = 5.0, the size of the
\* returned layout lies in [min_size, max_size].
C2_ReturnedSizeInRange ==
    (InRange /\ FitReturned) =>
        (FLe(MinFontSize, candidate) /\ FLe(candidate, max_font_size))

\* C3: the search returns the largest fitting size: no size of the range that
\* exceeds the returned size by more than the 0.25 tolerance also satisfies
\* the line-count and height constraints.
C3_LargestFittingSize ==
    (InRange /\ FitReturned) =>
        \A s \in ProbeSizes :
            ( /\ FLe(MinFontSize, s)
              /\ FLe(s, max_font_size)
              /\ FLt(FAdd(candidate, Tolerance), s) )
            => LET lay == LayoutOf(text, s, size)
               IN  lay.lines > AbsMaxLines(text)
                   \/ FLt(FromInt(size[2]), lay.height)

\* C4: whenever the search returns, the returned layout is the layout of the
\* last candidate and satisfies the constraints: its line count is at most
\* abs_max_lines and its height is at most the box height.
C4_ReturnedLayoutFits ==
    FitReturned =>
        /\ layout = LayoutOf(text, candidate, size)
        /\ layout.lines <= AbsMaxLines(text)
        /\ FLe(layout.height, FromInt(size[2]))

\* a return after at least one candidate was rejected, for a text with glyphs
C4_Witness ==
    /\ FitReturned
    /\ Len(text) > 0
    /\ max # max_font_size
    /\ FLt(FZero, layout.height)

\* C5: for max_size > min_size = 5.0, in every pass of the loop max never
\* increases, min never decreases, and min - max <= 0 holds.
C5_BoundsMonotone ==
    [][InRange => (FLe(max', max) /\ FLe(min, min') /\ FLe(min', max'))]_vars

\* C6: when the search returns, the interval has converged: |min - max| <= 0.25.
C6_ConvergedAtReturn ==
    (InRange /\ FitReturned) =>
        IF FLe(min, max) THEN FLe(FSub(max, min), Tolerance)
        ELSE FLe(FSub(min, max), Tolerance)

\* ------------------------------------------------------- claims on render --
\* every slot that receives a content item has zero width or zero height
ZeroSlots ==
    \A i \in 1..Pairs : BoxOf(fields[i])[1] = 0 \/ BoxOf(fields[i])[2] = 0

OverlayOfPair(o, i) ==
    /\ o.pos = <<U32(fields[i].min[1]), U32(fields[i].min[2])>>
    /\ <<o.mask.w, o.mask.h>> = BoxOf(fields[i])

\* C11: content items are paired with slots in list order. The i-th overlay is
\* made at the min corner of slot i with the glyphs of content item i, there
\* are never more text overlays than min(number of items, number of slots),
\* and when render returns there are exactly that many (and the watermark's).
C11_PairsInOrder ==
    /\ \A i \in 1..Min(Len(overlays), Min(Len(texts), Len(fields))) :
          OverlayOfPair(overlays[i], i)
    /\ Len(overlays) <= Min(Len(texts), Len(fields)) + (IF watermarked THEN 1 ELSE 0)
    /\ (pc = "overlay" /\ ~watermarked) =>
          /\ idx <= Min(Len(texts), Len(fields))
          /\ Len(overlays) = idx - 1
          /\ text = texts[idx]
          /\ OverlayOfPair([mask |-> mask, pos |-> pos], idx)
          /\ mask = RenderGlyphsInto(
                       ZeroMask(BoxOf(fields[idx])),
                       LayoutOf(texts[idx], candidate, BoxOf(fields[idx])).glyphs).image
    /\ pc = "done" =>
          Len(overlays) = Min(Len(texts), Len(fields))
                          + (IF watermark_msg.some THEN 1 ELSE 0)

\* render has returned after two items met two different slots, the first
\* item leaving glyphs in its mask
C11_Witness ==
    /\ pc = "done"
    /\ Len(texts) = 2
    /\ Len(fields) = 2
    /\ fields[1] # fields[2]
    /\ Len(overlays) = 2
    /\ \E c \in Coords(overlays[1].mask) : overlays[1].mask.px[c] = U8Max

\* render_watermark is called in this step
WatermarkStep == ~watermarked /\ watermarked'

\* C13: for every image size and every positive watermark_size_fraction the
\* watermark is rendered at font size min(width, height) / fraction and its
\* strip goes to x = 0, y = height - ceil(font size); the call does not fail
\* and the subtraction does not underflow.
C13_WatermarkRow ==
    [][WatermarkStep =>
          LET font_size == WatermarkFontSize(image.w, image.h,
                                             watermark_size_fraction)
          IN  /\ pc' = "overlay"
              /\ \A k \in raster_cache' \ raster_cache : k[2] = font_size
              /\ FCeil(font_size) <= image.h
              /\ pos' = <<U32(0), U32(image.h - FCeil(font_size))>>]_vars

\* C14: within one render call no glyph key is rasterized twice, over all
\* text slots and the watermark: the cache is empty when render starts and
\* holds exactly the keys rasterized so far.
C14_RasterizedOnce ==
    /\ \A i, j \in 1..Len(rasterized) : rasterized[i] = rasterized[j] => i = j
    /\ raster_cache = {rasterized[i] : i \in 1..Len(rasterized)}
    /\ pc = "render" => raster_cache = {}

\* render has returned after two text overlays with glyphs of one key
C14_Witness ==
    /\ pc = "done"
    /\ Len(overlays) = 2
    /\ \A i \in 1..2 :
          \E c \in Coords(overlays[i].mask) : overlays[i].mask.px[c] = U8Max
    /\ Len(rasterized) = 1

\* ----------------------------------------------- claims on the animated render --
\* C12: the animated render gives every frame what the simple render gives a
\* template with that frame as its base image: it returns as many frames as
\* it was given, in order, frame i being the simple render of input frame i,
\* and it fails only where the simple render of some frame fails.
C12_FramesAsSimpleRender ==
    /\ pc = "done" =>
          /\ Len(frames) = Len(frames_in)
          /\ \A i \in 1..Len(frames_in) :
                /\ SimpleRenderOf(frames_in[i]).end = "done"
                /\ frames[i] = SimpleRenderOf(frames_in[i]).image
    /\ pc = "panic" =>
          \E i \in 1..Len(frames_in) : SimpleRenderOf(frames_in[i]).end # "done"

\* ------------------------------------------- claims on the whole-image overlay --
Abs(n) == IF n < 0 THEN 0 - n ELSE n

\* C15: the scaled size of an image placed into a slot fits the slot, the
\* placed rectangle lies inside the slot, and the size keeps the aspect ratio
\* of the source up to rounding: each side is less than one pixel away from
\* the source side times one common factor, so the cross products of the
\* sides differ by less than the sum of the source sides.
C15_ScaledFitsKeepingAspect ==
    scaled.some =>
        LET w == scaled.val.size[1]
            h == scaled.val.size[2]
        IN  /\ w <= slot[1] /\ h <= slot[2]
            /\ scaled.val.offset[1] >= 0
            /\ scaled.val.offset[1] + w <= slot[1]
            /\ scaled.val.offset[2] >= 0
            /\ scaled.val.offset[2] + h <= slot[2]
            /\ Abs(w * source[2] - h * source[1]) < source[1] + source[2]

\* a 3 x 2 source in a 7 x 7 slot: scaled to 7 x 4 and centred vertically
C15_Witness ==
    /\ scaled.some
    /\ source = <<3, 2>>
    /\ slot = <<7, 7>>
    /\ scaled.val.size = <<7, 4>>
    /\ scaled.val.offset = <<0, 1>>

\* ------------------------------------------------ claims on get_meme_template --
\* e is a template directory named name
IsTemplate(e, name) == e.kind = "dir" /\ e.utf8 /\ e.name = name

\* source folder src contains a template directory named name
HoldsTemplate(src, name) ==
    \E j \in 1..Len(src.entries) : IsTemplate(src.entries[j], name)

\* the scan passes entry e without an error when e is not the template
Passable(e) == e.kind # "ioerr" /\ (e.kind = "dir" => e.utf8)

NotFound(r) == ~r.ok /\ r.msg = <<"Can't find template ", template>>

\* the first source, in configured order, with a template directory named
\* as requested, and the place of that directory in the source
FirstSource ==
    CHOOSE i \in 1..Len(sources) :
        /\ HoldsTemplate(sources[i], template)
        /\ \A k \in 1..(i - 1) : ~HoldsTemplate(sources[k], template)

FirstEntry ==
    CHOOSE j \in 1..Len(sources[FirstSource].entries) :
        /\ IsTemplate(sources[FirstSource].entries[j], template)
        /\ \A k \in 1..(j - 1) :
               ~IsTemplate(sources[FirstSource].entries[k], template)

\* the lookup has returned and its scan came to the template directory: all
\* folders before it were listed and all entries before it passed
Matched ==
    /\ found.some
    /\ \E i \in 1..Len(sources) : HoldsTemplate(sources[i], template)
    /\ \A i \in 1..(FirstSource - 1) :
           /\ sources[i].state = "listed"
           /\ \A j \in 1..Len(sources[i].entries) : Passable(sources[i].entries[j])
    /\ \A j \in 1..(FirstEntry - 1) : Passable(sources[FirstSource].entries[j])

MatchedDir == sources[FirstSource].entries[FirstEntry]

\* C16 as stated: the lookup fails with "Can't find template" exactly when no
\* source contains a template directory of that name, and a template that is
\* found comes from the first source that has one.
C16_NotFoundIffNoSourceHolds ==
    found.some =>
        /\ NotFound(found.val) <=>
               \A i \in 1..Len(sources) : ~HoldsTemplate(sources[i], template)
        /\ found.val.ok => found.val.val.at = <<FirstSource, FirstEntry>>

\* C16 amended: the lookup fails with "Can't find template" exactly when
\* every source folder was created and listed, every entry was read, every
\* directory name is UTF-8 and no source contains a template directory of
\* that name; it never reports not-found when some source contains one, and a
\* template that is found comes from the first source that has one.
C16_NotFoundIffScanEndsWithoutMatch ==
    found.some =>
        /\ NotFound(found.val) <=>
               \A i \in 1..Len(sources) :
                   /\ sources[i].state = "listed"
                   /\ \A j \in 1..Len(sources[i].entries) :
                          Passable(sources[i].entries[j])
                   /\ ~HoldsTemplate(sources[i], template)
        /\ (\E i \in 1..Len(sources) : HoldsTemplate(sources[i], template)) =>
               ~NotFound(found.val)
        /\ found.val.ok => found.val.val.at = <<FirstSource, FirstEntry>>

\* two listed folders, with a template "b" and a plain file "a", and the
\* lookup of "a" reports not-found
C16_Witness ==
    /\ found.some
    /\ NotFound(found.val)
    /\ Len(sources) = 2
    /\ \A i \in 1..2 : Len(sources[i].entries) = 2
    /\ \E j \in 1..2 : sources[2].entries[j].kind = "file"

\* the error names the template: some context attached to it holds the name
NamesTemplate(r) ==
    \E k \in 1..Len(r.context) :
        \E n \in 1..Len(r.context[k]) : r.context[k][n] = template

\* C17: when the lookup comes to the template directory and the directory has
\* neither image.png nor animated.gif, it returns an error whose context
\* names the template; a present image.png makes the template a simple one;
\* animated.gif is opened only when image.png is not found.
C17_MissingAssetsNameTemplate ==
    Matched =>
        /\ (MatchedDir.png = "missing" /\ MatchedDir.gif = "missing") =>
               ~found.val.ok /\ NamesTemplate(found.val)
        /\ MatchedDir.png = "present" =>
               found.val.ok /\ found.val.val.kind = "Simple"
        /\ (found.val.ok /\ found.val.val.kind = "Animated") =>
               MatchedDir.png = "missing"

\* C18: a config file that is present but does not parse gives an error with
\* a context and no configuration: memecli.conf.json in Config::load, which
\* uses the defaults only when the file cannot be read, and the config.json
\* of the template directory in get_meme_template.
C18_BrokenConfigErrorsWithContext ==
    /\ (config_file = "broken" /\ pc # "main") =>
           /\ config = None
           /\ result.some /\ ~result.val.ok /\ result.val.context # <<>>
    /\ (config.some /\ config.val = DefaultConfig) => config_file = "unreadable"
    /\ (Matched /\ MatchedDir.config = "broken") =>
           ~found.val.ok /\ found.val.context # <<>>

\* ----------------------------------------------------- claims on the export --
ExportEnds == pc = "export" /\ pc' = "exit"

\* C19: the clipboard takes only a static render. Exporting an animated
\* render without -o returns the error of image_out, leaves the clipboard as
\* it was and prints no "Done!"; only a static render exported without -o
\* changes the clipboard; an animated render exported with -o is not refused:
\* it fails only when the write fails, and else is written and "Done!" printed.
C19_ClipboardOnlyStatic ==
    [][ExportEnds =>
         /\ clipboard' # clipboard =>
                rendered.val = "Simple" /\ ~output.some /\ result'.val.ok
         /\ (rendered.val = "Animated" /\ ~output.some) =>
                /\ result' = Some(Unsupported)
                /\ clipboard' = clipboard
                /\ \A k \in 1..Len(stderr') : stderr'[k] # "Done!"
         /\ (rendered.val = "Animated" /\ output.some) =>
                /\ result'.val # Unsupported
                /\ result'.val.ok =>
                       /\ exported' = Some([to |-> output.val, kind |-> "Animated"])
                       /\ stderr' = Append(stderr, "Done!")]_vars

C19_Witness ==
    /\ pc = "exit"
    /\ rendered = Some("Animated")
    /\ ~output.some
    /\ result = Some(Unsupported)
    /\ clipboard = Some("earlier")
    /\ stderr = <<"Template found", "Meme rendered">>

\* ------------------------------------------------- claims on abs_max_lines --
\* the words of t: its maximal runs of characters that are not whitespace
WordCount(t) ==
    Cardinality({i \in 1..Len(t) :
                    ~IsWhitespace(t[i]) /\ (i = 1 \/ IsWhitespace(t[i - 1]))})

WhitespaceCount(t) == Cardinality({i \in 1..Len(t) : IsWhitespace(t[i])})

\* t is words with one whitespace character between them
SingleSpaced(t) ==
    /\ Len(t) > 0
    /\ ~IsWhitespace(t[1])
    /\ ~IsWhitespace(t[Len(t)])
    /\ \A i \in 1..(Len(t) - 1) : ~(IsWhitespace(t[i]) /\ IsWhitespace(t[i + 1]))

\* C20 as stated: abs_max_lines is the number of words of the text, for every
\* text.
C20_AbsMaxLinesIsWordCount == AbsMaxLines(text) = WordCount(text)

\* C20 amended: abs_max_lines is the number of pieces the split yields, one
\* more than the number of whitespace characters of the text; it is never
\* less than the number of words and equals it exactly for words with one
\* whitespace character between them; the empty text gives 1.
C20_AbsMaxLinesIsPieceCount ==
    /\ AbsMaxLines(text) = WhitespaceCount(text) + 1
    /\ AbsMaxLines(text) >= WordCount(text)
    /\ SingleSpaced(text) => AbsMaxLines(text) = WordCount(text)

\* the search has returned for a text with a leading whitespace character:
\* one word, and abs_max_lines was 2
C20_Witness ==
    /\ pc = "glyphs"
    /\ text = <<" ", "a">>
    /\ WordCount(text) = 1
    /\ AbsMaxLines(text) = 2

\* --------------------------------------------------- claims on render_glyphs --
\* the positions render_glyphs hands to put_pixel
GlyphWrites(glyphs) == UNION {GlyphPixels(glyphs[j]) : j \in 1..Len(glyphs)}

Inside(msk, t) == t[1] < msk.w /\ t[2] < msk.h

\* C21: every position render_glyphs writes, for the text of a slot and for
\* the watermark, is inside the mask it writes to, and writing the glyphs of
\* a slot never ends the render in a panic.
C21_GlyphWritesInsideMask ==
    [][/\ (pc = "glyphs" /\ idx > 0) =>
              /\ \A t \in GlyphWrites(layout.glyphs) : Inside(mask, t)
              /\ pc' # "panic"
       /\ WatermarkStep =>
              \A t \in GlyphWrites(
                         WatermarkLayout(watermark_msg.val,
                             WatermarkFontSize(image.w, image.h,
                                               watermark_size_fraction)).glyphs) :
                  Inside(mask', t)]_vars

\* ------------------------------------------ claims on the bounds of the search --
\* C23: for max_size >= min_size = 5.0 the search never moves its lower
\* bound: min is min_size before and after every step, every candidate is
\* min_size + max / 2, and the search returns at the first candidate whose
\* layout satisfies the constraints.
C23_LowerBoundNeverMoves ==
    [][FLe(MinFontSize, max_font_size) =>
         /\ min = MinFontSize
         /\ min' = MinFontSize
         /\ pc = "fit" =>
                candidate' = FAdd(MinFontSize, FDiv(max, FromInt(2)))
         /\ (pc = "test" /\ ~TooLarge(layout, text, size)) => pc' = "glyphs"]_vars

\* a return after a candidate was rejected, the lower bound still min_size
C23_Witness ==
    /\ FitReturned
    /\ FLe(MinFontSize, max_font_size)
    /\ max # max_font_size
    /\ min = MinFontSize
    /\ Len(text) > 0

\* ------------------------------------------------- claims on make-template --
\* MakeTemplate::run returns in this step
MakeEnds == pc = "make" /\ pc' = "exit"

\* the '-'-separated parts of a literal
Parts(l) == SplitDash(l, 1, <<>>)

\* fewer than four parts, or a part that is not a u32
Malformed(l) ==
    \/ Len(Parts(l)) < 4
    \/ \E k \in 1..Len(Parts(l)) : ~ParseU32(Parts(l)[k]).ok

\* the slot of the literal LEFT-TOP-RIGHT-BOTTOM
SlotOf(l) ==
    [min |-> <<ParseU32(Parts(l)[1]).val, ParseU32(Parts(l)[2]).val>>,
     max |-> <<ParseU32(Parts(l)[3]).val, ParseU32(Parts(l)[4]).val>>]

\* C27: make-template writes nothing when a coordinate literal is malformed
\* (fewer than four '-'-separated parts, or a part that is not a u32): it
\* returns an error and write_template is not called; and the template it
\* writes has one slot for each literal, min = (LEFT, TOP) and
\* max = (RIGHT, BOTTOM), in the order of the arguments
C27_MalformedLiteralWritesNothing ==
    [][MakeEnds =>
         /\ (\E i \in 1..Len(coordinates) : Malformed(coordinates[i])) =>
                /\ ~result'.val.ok
                /\ sources' = sources
                /\ saved' = None
         /\ saved'.some =>
                saved'.val.text = [i \in 1..Len(coordinates) |-> SlotOf(coordinates[i])]]_vars

\* ---------------------------------------------- claims on write_template --
\* C26: when write_template returns an error the source folders are as they
\* were: there is no new template directory, no template of that name has
\* changed, and get_meme_template of the name gives what it gave before
C26_FailedWriteLeavesSourcesAlone ==
    [][(/\ MakeEnds
        /\ ParseCoordinates(coordinates, 1, <<>>).ok
        /\ ~result'.val.ok) =>
            /\ sources' = sources
            /\ GetMemeTemplate(sources', template)
                   = GetMemeTemplate(sources, template)]_vars

\* ------------------------------------------------- claims on the editor --
\* write_template returned Ok in this step
Written == saved' # saved

\* C22: a click on Save Template does not crash; it clears the template name
\* and the text rects when the template was written and only then: with an
\* empty name nothing is written and nothing changes, and when write_template
\* fails its error is printed and the name and the rects are kept
C22_SaveClearsIffWritten ==
    [][SaveTemplate =>
         /\ pc' # "panic"
         /\ Written => (meme_name' = "" /\ rects' = <<>>)
         /\ ~Written => (meme_name' = meme_name /\ rects' = rects)
         /\ meme_name = "" => (~Written /\ sources' = sources)
         /\ (meme_name # "" /\ ~Written) =>
                /\ stdout'.some
                /\ stdout'.val \in {<<"No local sources configured">>,
                                    <<"io::Error">>, <<"ImageError">>}]_vars

\* a write has failed on a named template with a rect, and both are still there
C22_Witness ==
    /\ pc = "gui"
    /\ stdout = Some(<<"ImageError">>)
    /\ meme_name = "a"
    /\ Len(rects) = 1
    /\ rects[1].min # NewTextRect.min

\* a <= b in u32
U32Le(a, b) == a.hi < b.hi \/ (a.hi = b.hi /\ a.lo <= b.lo)

\* C24: every slot the editor has saved has min <= max on both axes in the
\* u32 coordinates written, whatever drags came before
C24_SavedSlotsOrdered ==
    (pc = "written" /\ saved.some) =>
        \A i \in 1..Len(saved.val.text) :
            /\ U32Le(saved.val.text[i].min[1], saved.val.text[i].max[1])
            /\ U32Le(saved.val.text[i].min[2], saved.val.text[i].max[2])

\* the button is up, every event has been handled, and a handle is active
ActiveAfterRelease ==
    /\ pc = "gui"
    /\ ~input.pressed
    /\ events = <<>>
    /\ Actives(rects) # {}

\* C25: an ActiveHandle that a press of the left button has inserted is
\* removed once the button is released: no handle stays active after the drag
C25_ReleaseDeactivates == ActiveAfterRelease ~> (Actives(rects) = {})

====
